---- MODULE Spec2Model ----
(***************************************************************************)
(* Shadow-admin analysis of IAM policy documents                           *)
(* (cloud-iam-policy-explorer, aws-handler.js).                            *)
(*                                                                         *)
(* JavaScript strings are TLA+ strings handled character by character;     *)
(* a JavaScript value that the code tests with Array.isArray is a record   *)
(* [type, val]; an object field that may be missing is a record field      *)
(* that may be missing from the record's DOMAIN.                           *)
(***************************************************************************)
EXTENDS Integers, Sequences, FiniteSets, TLC

VARIABLES
    ESCALATION_METHODS,   \* the module-level catalog object
    policyDocument,       \* argument of the latest analyzePolicyForShadowAdmin call
    result,               \* value returned by the latest call
    history,              \* first result returned for each document analysed so far
    detectedRefs,         \* the array objects the latest result's detectedMethods point to
    PolicyEditorConfig,   \* window.app.PolicyEditorConfig, set by the AWS policies script
    awsData,              \* PolicyExpansion.awsData
    allActions,           \* PolicyExpansion.allActions
    isInitialized,        \* PolicyExpansion.isInitialized
    initializeCalls,      \* where each initialize() call made so far stands
    expansion,            \* outcome of the latest PolicyExpansion.analyzePolicy call
    expansionView,        \* what renderExpansionAnalysis left on the page
    doc1,                 \* first argument of the latest calculatePolicyDiff call
    doc2,                 \* its second argument
    diff,                 \* the value it returned
    previousDiff,         \* arguments and value of the call before it
    appInit,              \* where App.init() stands
    eventListeners,       \* whether setupEventListeners() has run
    credentials,          \* AWSHandler.credentials
    iamClient,            \* AWSHandler.iamClient
    stsClient,            \* AWSHandler.stsClient
    currentIdentity,      \* AWSHandler.currentIdentity
    hasFullListPermissions, \* AWSHandler.hasFullListPermissions
    handlerCalls          \* the calls made on the handler, each with where it stands

analysisVars == <<ESCALATION_METHODS, policyDocument, result, history, detectedRefs>>

expansionVars ==
    <<PolicyEditorConfig, awsData, allActions, isInitialized, initializeCalls, expansion,
      expansionView>>

diffVars == <<doc1, doc2, diff, previousDiff>>

appVars == <<appInit, eventListeners>>

handlerVars ==
    <<credentials, iamClient, stsClient, currentIdentity, hasFullListPermissions,
      handlerCalls>>

vars == <<analysisVars, expansionVars, diffVars, appVars, handlerVars>>

-----------------------------------------------------------------------------
(* JavaScript string primitives                                            *)

UpperAlphabet == "ABCDEFGHIJKLMNOPQRSTUVWXYZ"
LowerAlphabet == "abcdefghijklmnopqrstuvwxyz"

charAt(s, i) == SubSeq(s, i, i)

\* a character table: the characters it replaces and what replaces each
ToLowerTable ==
    [from |-> {charAt(UpperAlphabet, i) : i \in 1..Len(UpperAlphabet)},
     to   |-> [c \in {charAt(UpperAlphabet, i) : i \in 1..Len(UpperAlphabet)} |->
                  charAt(LowerAlphabet,
                         CHOOSE i \in 1..Len(UpperAlphabet) : charAt(UpperAlphabet, i) = c)]]

ToUpperTable ==
    [from |-> {charAt(LowerAlphabet, i) : i \in 1..Len(LowerAlphabet)},
     to   |-> [c \in {charAt(LowerAlphabet, i) : i \in 1..Len(LowerAlphabet)} |->
                  charAt(UpperAlphabet,
                         CHOOSE i \in 1..Len(LowerAlphabet) : charAt(LowerAlphabet, i) = c)]]

\* the characters matched by the regular expression \s that the inputs use
WhitespaceTable == [from |-> {" "}, to |-> [c \in {" "} |-> ""]]

\* the characters lo..hi of s, each replaced through the table: a range without
\* a character of the table is copied, any other range is done by halves
RECURSIVE mapChars(_, _, _, _)
mapChars(table, s, lo, hi) ==
    IF \A i \in lo..hi : charAt(s, i) \notin table.from THEN SubSeq(s, lo, hi)
    ELSE IF lo = hi THEN table.to[charAt(s, lo)]
    ELSE mapChars(table, s, lo, (lo + hi) \div 2)
             \o mapChars(table, s, (lo + hi) \div 2 + 1, hi)

\* String.prototype.toLowerCase
toLowerCase(s) == mapChars(ToLowerTable, s, 1, Len(s))

\* String.prototype.toUpperCase (used to write inputs in another letter case)
toUpperCase(s) == mapChars(ToUpperTable, s, 1, Len(s))

\* s.replace(/\s/g, '')
stripWhitespace(s) == mapChars(WhitespaceTable, s, 1, Len(s))

\* s.includes(sub)
includes(s, sub) ==
    \E i \in 1..(Len(s) - Len(sub) + 1) : SubSeq(s, i, i + Len(sub) - 1) = sub

\* s.startsWith(prefix)
startsWith(s, prefix) ==
    Len(prefix) <= Len(s) /\ SubSeq(s, 1, Len(prefix)) = prefix

\* s.endsWith(suffix)
endsWith(s, suffix) ==
    Len(suffix) <= Len(s) /\ SubSeq(s, Len(s) - Len(suffix) + 1, Len(s)) = suffix

\* s.split(':')[0]: the text before the first colon, the whole string without one
splitFirst(s) ==
    IF \E i \in 1..Len(s) : charAt(s, i) = ":"
    THEN LET first == CHOOSE i \in 1..Len(s) :
                          charAt(s, i) = ":" /\ \A j \in 1..(i - 1) : charAt(s, j) # ":"
         IN  SubSeq(s, 1, first - 1)
    ELSE s

RECURSIVE joinFrom(_, _, _)
joinFrom(arr, sep, i) ==
    IF i > Len(arr) THEN ""
    ELSE IF i = Len(arr) THEN arr[i]
    ELSE arr[i] \o sep \o joinFrom(arr, sep, i + 1)

\* Array.prototype.join
join(arr, sep) == joinFrom(arr, sep, 1)

\* Array.prototype.includes on an array modelled as a sequence
arrayIncludes(arr, x) == \E i \in 1..Len(arr) : arr[i] = x

\* the entries of an array, as a set
Range(q) == {q[i] : i \in 1..Len(q)}

-----------------------------------------------------------------------------
(* ESCALATION_METHODS: the catalog, in the insertion order of its keys     *)

Method(name, permissions, optional, riskLevel, category, description) ==
    [name |-> name, permissions |-> permissions, optional |-> optional,
     riskLevel |-> riskLevel, category |-> category, description |-> description]

EscalationCatalog == <<
    Method("CreateNewPolicyVersion", <<"iam:createpolicyversion">>,
           <<"iam:listattachedgrouppolicies", "iam:listattachedrolepolicies",
             "iam:listattacheduserpolicies">>,
           10, "IAM Policy Manipulation",
           "Can create new policy version with admin permissions and set as default"),
    Method("SetExistingDefaultPolicyVersion", <<"iam:setdefaultpolicyversion">>,
           <<"iam:listpolicyversions", "iam:listattacheduserpolicies">>,
           10, "IAM Policy Manipulation",
           "Can revert to previous policy version with higher privileges"),
    Method("AttachUserPolicy", <<"iam:attachuserpolicy">>, <<"iam:listusers">>,
           10, "IAM Policy Manipulation",
           "Can attach AdministratorAccess policy to own user"),
    Method("AttachGroupPolicy", <<"iam:attachgrouppolicy">>, <<"iam:listgroupsforuser">>,
           10, "IAM Policy Manipulation",
           "Can attach admin policy to a group user belongs to"),
    Method("AttachRolePolicy", <<"iam:attachrolepolicy", "sts:assumerole">>,
           <<"iam:listroles">>,
           10, "IAM Policy Manipulation",
           "Can attach admin policy to an assumable role"),
    Method("PutUserPolicy", <<"iam:putuserpolicy">>, <<"iam:listuserpolicies">>,
           10, "IAM Policy Manipulation",
           "Can create inline policy with admin permissions on own user"),
    Method("PutGroupPolicy", <<"iam:putgrouppolicy">>, <<"iam:listgrouppolicies">>,
           10, "IAM Policy Manipulation",
           "Can create inline admin policy on a group user belongs to"),
    Method("PutRolePolicy", <<"iam:putrolepolicy", "sts:assumerole">>,
           <<"iam:listrolepolicies">>,
           10, "IAM Policy Manipulation",
           "Can create inline admin policy on an assumable role"),
    Method("AddUserToGroup", <<"iam:addusertogroup">>, <<"iam:listgroups">>,
           8, "Principal Manipulation",
           "Can add self to privileged group"),
    Method("CreateAccessKey", <<"iam:createaccesskey">>, <<"iam:listusers">>,
           9, "Principal Manipulation",
           "Can create access keys for privileged users"),
    Method("CreateLoginProfile", <<"iam:createloginprofile">>, <<"iam:listusers">>,
           8, "Principal Manipulation",
           "Can create console password for privileged users"),
    Method("UpdateLoginProfile", <<"iam:updateloginprofile">>, <<"iam:listusers">>,
           8, "Principal Manipulation",
           "Can reset console password for privileged users"),
    Method("UpdateRolePolicyToAssumeIt", <<"iam:updateassumerolepolicy", "sts:assumerole">>,
           <<"iam:listroles">>,
           9, "Principal Manipulation",
           "Can modify role trust policy to assume privileged role"),
    Method("PassRoleToEC2", <<"iam:passrole", "ec2:runinstances">>,
           <<"iam:listinstanceprofiles">>,
           9, "PassRole Escalation",
           "Can pass privileged role to EC2 and extract credentials"),
    Method("PassRoleToLambda",
           <<"iam:passrole", "lambda:createfunction", "lambda:invokefunction">>,
           <<"iam:listroles">>,
           10, "PassRole Escalation",
           "Can create Lambda with privileged role and invoke it"),
    Method("PassRoleToLambdaDynamoDB",
           <<"iam:passrole", "lambda:createfunction", "lambda:createeventsourcemapping",
             "dynamodb:putitem">>,
           <<"dynamodb:createtable">>,
           9, "PassRole Escalation",
           "Can create Lambda with privileged role triggered by DynamoDB"),
    Method("UpdateLambdaFunction", <<"lambda:updatefunctioncode">>,
           <<"lambda:listfunctions", "lambda:invokefunction">>,
           9, "PassRole Escalation",
           "Can modify existing Lambda function with privileged role"),
    Method("PassRoleToGlue", <<"iam:passrole", "glue:createdevendpoint">>,
           <<"glue:getdevendpoint", "iam:listroles">>,
           9, "PassRole Escalation",
           "Can create Glue Dev Endpoint with privileged role"),
    Method("UpdateGlueDevEndpoint", <<"glue:updatedevendpoint">>,
           <<"glue:describedevendpoints">>,
           8, "PassRole Escalation",
           "Can add SSH key to existing Glue Dev Endpoint"),
    Method("PassRoleToCloudFormation", <<"iam:passrole", "cloudformation:createstack">>,
           <<"cloudformation:describestacks", "iam:listroles">>,
           9, "PassRole Escalation",
           "Can create CloudFormation stack with privileged role"),
    Method("PassRoleToDataPipeline",
           <<"iam:passrole", "datapipeline:createpipeline",
             "datapipeline:putpipelinedefinition">>,
           <<"iam:listroles">>,
           8, "PassRole Escalation",
           "Can create Data Pipeline with privileged role"),
    Method("PassRoleToCodeStar", <<"iam:passrole", "codestar:createproject">>, <<>>,
           7, "PassRole Escalation",
           "Can create CodeStar project with privileged role"),
    Method("CodeStarCreateProjectFromTemplate", <<"codestar:createprojectfromtemplate">>,
           <<>>,
           7, "Special Methods",
           "Undocumented CodeStar API providing elevated permissions"),
    Method("CodeStarAssociateTeamMember",
           <<"codestar:createproject", "codestar:associateteammember">>, <<>>,
           7, "Special Methods",
           "Can gain enumeration permissions through CodeStar Owner role")
>>

-----------------------------------------------------------------------------
(* JavaScript values                                                        *)

Str(s) == [type |-> "string", val |-> s]
Arr(q) == [type |-> "array", val |-> q]

\* Array.isArray(v)
isArray(v) == v.type = "array"

\* !policyDocument || !policyDocument.Statement
hasNoStatements(doc) ==
    doc.type \in {"null", "undefined"} \/ "Statement" \notin DOMAIN doc

\* Array.isArray(policyDocument.Statement) ? policyDocument.Statement
\*                                         : [policyDocument.Statement]
statementsOf(doc) ==
    IF isArray(doc.Statement) THEN doc.Statement.val ELSE <<doc.Statement>>

\* a variant that leaves a missing Effect undefined
effectOfNoDefault(statement) ==
    IF "Effect" \in DOMAIN statement THEN statement.Effect ELSE "undefined"

\* statement.Effect || 'Allow'
effectOf(statement) ==
    IF "Effect" \in DOMAIN statement THEN statement.Effect ELSE "Allow"

\* a variant that reads NotAction where a statement has no Action
actionsOfOrNotAction(statement) ==
    IF "Action" \in DOMAIN statement
    THEN (IF isArray(statement.Action) THEN statement.Action.val
                                       ELSE <<statement.Action.val>>)
    ELSE IF "NotAction" \in DOMAIN statement
    THEN (IF isArray(statement.NotAction) THEN statement.NotAction.val
                                          ELSE <<statement.NotAction.val>>)
    ELSE <<>>

\* statement.Action ? (Array.isArray(statement.Action) ? statement.Action
\*                                                     : [statement.Action]) : []
actionsOf(statement) ==
    IF "Action" \in DOMAIN statement
    THEN (IF isArray(statement.Action) THEN statement.Action.val
                                       ELSE <<statement.Action.val>>)
    ELSE <<>>

\* the same for statement.Resource
resourcesOf(statement) ==
    IF "Resource" \in DOMAIN statement
    THEN (IF isArray(statement.Resource) THEN statement.Resource.val
                                         ELSE <<statement.Resource.val>>)
    ELSE <<>>

\* a variant that looks for "*" inside the entries
hasWildcardEntryBySubstring(entries) ==
    \E i \in 1..Len(entries) : includes(entries[i], "*")

\* actions.includes('*'), resources.includes('*')
hasWildcardEntry(entries) == arrayIncludes(entries, "*")

\* a variant that keeps the letter case
normalizeActionKeepCase(action) == stripWhitespace(action)

\* action.toLowerCase().replace(/\s/g, '')
normalizeAction(action) == stripWhitespace(toLowerCase(action))

-----------------------------------------------------------------------------
(* The issues the analysis emits                                           *)

FullAdminIssue(idx) ==
    [type |-> "FULL_ADMIN", severity |-> "critical", statementIndex |-> idx,
     title |-> "Full Administrator Access",
     description |->
         "This statement grants Action: \"*\" on Resource: \"*\" - full admin permissions",
     remediation |-> "Restrict to specific actions and resources required for the task"]

WildcardActionIssue ==
    [type |-> "WILDCARD_ACTION", severity |-> "high", statementIndex |-> -1,
     title |-> "Wildcard Actions Detected",
     description |->
         "Policy contains wildcard (*) in Action field which may grant excessive permissions",
     remediation |-> "Use specific action names instead of wildcards"]

WildcardResourceIssue ==
    [type |-> "WILDCARD_RESOURCE", severity |-> "medium", statementIndex |-> -1,
     title |-> "Wildcard Resources Detected",
     description |->
         "Policy contains wildcard (*) in Resource field which applies to all resources",
     remediation |-> "Restrict to specific resource ARNs when possible"]

PrivilegeEscalationIssue(methodInfo, requiredPerms) ==
    [type |-> "PRIVILEGE_ESCALATION",
     severity |-> IF methodInfo.riskLevel >= 9 THEN "critical" ELSE "high",
     statementIndex |-> -1,
     title |-> "Privilege Escalation: " \o methodInfo.name,
     description |-> methodInfo.description,
     category |-> methodInfo.category,
     remediation |-> "Remove or restrict: " \o join(requiredPerms, ", ")]

\* { method: methodName, ...methodInfo }
DetectedMethod(methodInfo) ==
    [method |-> methodInfo.name, permissions |-> methodInfo.permissions,
     optional |-> methodInfo.optional, riskLevel |-> methodInfo.riskLevel,
     category |-> methodInfo.category, description |-> methodInfo.description]

\* issues.some(i => i.type === 'FULL_ADMIN')
hasFullAdminIssue(issues) == \E i \in 1..Len(issues) : issues[i].type = "FULL_ADMIN"

\* Math.max
Max(a, b) == IF a >= b THEN a ELSE b

-----------------------------------------------------------------------------
(* The statement loop: wildcard flags, FULL_ADMIN, permission collection   *)

\* the locals of one call before the loop starts
InitialLocals ==
    [issues |-> <<>>, detectedMethods |-> <<>>, maxRiskLevel |-> 0,
     allowedPermissions |-> {}, deniedPermissions |-> {},
     hasWildcardAction |-> FALSE, hasWildcardResource |-> FALSE]

\* Object.keys(ESCALATION_METHODS).forEach(method =>
\*     ESCALATION_METHODS[method].permissions.forEach(perm =>
\*         { if (perm.startsWith(prefix)) allowedPermissions.add(perm); }))
catalogPermissionsWithPrefix(catalog, prefix) ==
    {perm \in UNION {{catalog[m].permissions[k] :
                          k \in 1..Len(catalog[m].permissions)} :
                     m \in 1..Len(catalog)} :
        startsWith(perm, prefix)}

\* a variant that expands every action with * in it to its service's permissions
expandWildcardOfAnyPattern(catalog, action, normalizedAction) ==
    IF includes(action, "*")
    THEN (IF normalizedAction = "iam:*"
          THEN catalogPermissionsWithPrefix(catalog, "iam:")
          ELSE {})
         \cup
         (LET servicePart == splitFirst(normalizedAction)
          IN  IF servicePart # ""
              THEN catalogPermissionsWithPrefix(catalog, servicePart \o ":")
              ELSE {})
    ELSE {}

\* the permissions one wildcard Allow action adds beside its own string
\* (the block under  if (action.includes('*')) )
expandWildcard(catalog, action, normalizedAction) ==
    IF includes(action, "*")
    THEN (IF normalizedAction = "iam:*"
          THEN catalogPermissionsWithPrefix(catalog, "iam:")
          ELSE {})
         \cup
         (LET servicePart == splitFirst(normalizedAction)
          IN  IF servicePart # "" /\ endsWith(normalizedAction, ":*")
              THEN catalogPermissionsWithPrefix(catalog, servicePart \o ":")
              ELSE {})
    ELSE {}

\* a variant that records a denied action as written
collectActionRawDeny(locals, catalog, effect, action) ==
    LET normalizedAction == normalizeAction(action)
    IN  IF effect = "Allow"
        THEN [locals EXCEPT !.allowedPermissions =
                 (@ \cup {normalizedAction})
                    \cup expandWildcard(catalog, action, normalizedAction)]
        ELSE IF effect = "Deny"
        THEN [locals EXCEPT !.deniedPermissions = @ \cup {action}]
        ELSE locals

\* the body of  actions.forEach(action => { ... })
collectAction(locals, catalog, effect, action) ==
    LET normalizedAction == normalizeAction(action)
    IN  IF effect = "Allow"
        THEN [locals EXCEPT !.allowedPermissions =
                 (@ \cup {normalizedAction})
                    \cup expandWildcard(catalog, action, normalizedAction)]
        ELSE IF effect = "Deny"
        THEN [locals EXCEPT !.deniedPermissions = @ \cup {normalizedAction}]
        ELSE locals

RECURSIVE collectActions(_, _, _, _, _)
collectActions(locals, catalog, effect, actions, i) ==
    IF i > Len(actions) THEN locals
    ELSE collectActions(collectAction(locals, catalog, effect, actions[i]),
                        catalog, effect, actions, i + 1)

\* the wildcard checks at the top of the statement callback; idx counts from 0
checkWildcards(locals, statement, idx) ==
    LET effect    == effectOf(statement)
        actions   == actionsOf(statement)
        resources == resourcesOf(statement)
        flagged   == IF hasWildcardEntry(actions)
                     THEN [locals EXCEPT !.hasWildcardAction = TRUE]
                     ELSE locals
        admin     == IF hasWildcardEntry(actions)
                        /\ hasWildcardEntry(resources) /\ effect = "Allow"
                     THEN [flagged EXCEPT
                              !.issues = Append(@, FullAdminIssue(idx)),
                              !.maxRiskLevel = 10]
                     ELSE flagged
    IN  IF hasWildcardEntry(resources)
        THEN [admin EXCEPT !.hasWildcardResource = TRUE]
        ELSE admin

\* statements.forEach((statement, idx) => { ... })
RECURSIVE scanStatements(_, _, _, _)
scanStatements(locals, catalog, statements, i) ==
    IF i > Len(statements) THEN locals
    ELSE scanStatements(
             collectActions(checkWildcards(locals, statements[i], i - 1),
                            catalog, effectOf(statements[i]),
                            actionsOf(statements[i]), 1),
             catalog, statements, i + 1)

-----------------------------------------------------------------------------
(* The document-level wildcard issues                                      *)

\* a variant that ignores the FULL_ADMIN issues
wildcardActionCheckUnsuppressed(locals) ==
    IF locals.hasWildcardAction
    THEN [locals EXCEPT !.issues = Append(@, WildcardActionIssue),
                        !.maxRiskLevel = Max(@, 8)]
    ELSE locals

wildcardActionCheck(locals) ==
    IF locals.hasWildcardAction /\ ~hasFullAdminIssue(locals.issues)
    THEN [locals EXCEPT !.issues = Append(@, WildcardActionIssue),
                        !.maxRiskLevel = Max(@, 8)]
    ELSE locals

\* a variant that rates the wildcard resource as a minor concern
wildcardResourceCheckLow(locals) ==
    IF locals.hasWildcardResource /\ ~hasFullAdminIssue(locals.issues)
    THEN [locals EXCEPT !.issues = Append(@, [WildcardResourceIssue EXCEPT
                                                   !.severity = "low"]),
                        !.maxRiskLevel = Max(@, 3)]
    ELSE locals

wildcardResourceCheck(locals) ==
    IF locals.hasWildcardResource /\ ~hasFullAdminIssue(locals.issues)
    THEN [locals EXCEPT !.issues = Append(@, WildcardResourceIssue),
                        !.maxRiskLevel = Max(@, 6)]
    ELSE locals

-----------------------------------------------------------------------------
(* The catalog loop: Object.entries(ESCALATION_METHODS).forEach(...)       *)

\* methodInfo.permissions.map(p => p.toLowerCase())
requiredPermsOf(methodInfo) ==
    [k \in 1..Len(methodInfo.permissions) |-> toLowerCase(methodInfo.permissions[k])]

\* a variant without the "*" rule
permissionGrantedNoStar(allowedPermissions, perm) ==
    IF perm \in allowedPermissions THEN TRUE
    ELSE (splitFirst(perm) \o ":*") \in allowedPermissions

\* the callback of requiredPerms.every(...)
permissionGranted(allowedPermissions, perm) ==
    IF perm \in allowedPermissions THEN TRUE
    ELSE IF "*" \in allowedPermissions THEN TRUE
    ELSE (splitFirst(perm) \o ":*") \in allowedPermissions

\* a variant with some() in place of every()
hasAnyRequired(allowedPermissions, requiredPerms) ==
    \E k \in 1..Len(requiredPerms) : permissionGranted(allowedPermissions, requiredPerms[k])

\* requiredPerms.every(perm => ...)
hasAllRequired(allowedPermissions, requiredPerms) ==
    \A k \in 1..Len(requiredPerms) : permissionGranted(allowedPermissions, requiredPerms[k])

\* requiredPerms.some(perm => deniedPermissions.has(perm))
hasAnyDenied(deniedPermissions, requiredPerms) ==
    \E k \in 1..Len(requiredPerms) : requiredPerms[k] \in deniedPermissions

\* a variant that reports no technique once "*" is allowed
methodDetectedUnlessAdmin(locals, requiredPerms) ==
    /\ hasAllRequired(locals.allowedPermissions, requiredPerms)
    /\ ~hasAnyDenied(locals.deniedPermissions, requiredPerms)
    /\ "*" \notin locals.allowedPermissions

\* if (hasAllRequired && !hasAnyDenied)
methodDetected(locals, requiredPerms) ==
    /\ hasAllRequired(locals.allowedPermissions, requiredPerms)
    /\ ~hasAnyDenied(locals.deniedPermissions, requiredPerms)

\* a variant that overwrites maxRiskLevel
recordDetectedLastRiskWins(locals, methodInfo, requiredPerms) ==
    [locals EXCEPT
        !.detectedMethods = Append(@, DetectedMethod(methodInfo)),
        !.issues = Append(@, PrivilegeEscalationIssue(methodInfo, requiredPerms)),
        !.maxRiskLevel = methodInfo.riskLevel]

\* the three statements under that condition
recordDetected(locals, methodInfo, requiredPerms) ==
    [locals EXCEPT
        !.detectedMethods = Append(@, DetectedMethod(methodInfo)),
        !.issues = Append(@, PrivilegeEscalationIssue(methodInfo, requiredPerms)),
        !.maxRiskLevel = Max(@, methodInfo.riskLevel)]

\* Object.entries(ESCALATION_METHODS).forEach(([methodName, methodInfo]) => ...)
RECURSIVE matchMethods(_, _, _)
matchMethods(locals, catalog, m) ==
    IF m > Len(catalog) THEN locals
    ELSE LET requiredPerms == requiredPermsOf(catalog[m])
         IN  IF methodDetected(locals, requiredPerms)
             THEN matchMethods(recordDetected(locals, catalog[m], requiredPerms),
                               catalog, m + 1)
             ELSE matchMethods(locals, catalog, m + 1)

-----------------------------------------------------------------------------
(* Summary, statistics and the returned object                             *)

\* a variant whose HIGH RISK band starts above 8
summaryOfHighAbove8(locals) ==
    IF locals.maxRiskLevel = 10
    THEN "CRITICAL: Full admin or direct privilege escalation possible"
    ELSE IF locals.maxRiskLevel > 8
    THEN "HIGH RISK: " \o ToString(Len(locals.detectedMethods))
             \o " privilege escalation method(s) detected"
    ELSE IF locals.maxRiskLevel >= 5
    THEN "MEDIUM RISK: Some dangerous permissions present"
    ELSE IF Len(locals.issues) > 0
    THEN "LOW RISK: Minor security concerns detected"
    ELSE "No significant security issues detected"

\* the if / else if chain that picks the summary
summaryOf(locals) ==
    IF locals.maxRiskLevel = 10
    THEN "CRITICAL: Full admin or direct privilege escalation possible"
    ELSE IF locals.maxRiskLevel >= 8
    THEN "HIGH RISK: " \o ToString(Len(locals.detectedMethods))
             \o " privilege escalation method(s) detected"
    ELSE IF locals.maxRiskLevel >= 5
    THEN "MEDIUM RISK: Some dangerous permissions present"
    ELSE IF Len(locals.issues) > 0
    THEN "LOW RISK: Minor security concerns detected"
    ELSE "No significant security issues detected"

\* issues.filter(i => i.severity === severity).length
countSeverity(issues, severity) ==
    Cardinality({i \in 1..Len(issues) : issues[i].severity = severity})

statsOf(locals) ==
    [totalIssues |-> Len(locals.issues),
     criticalIssues |-> countSeverity(locals.issues, "critical"),
     highIssues |-> countSeverity(locals.issues, "high"),
     mediumIssues |-> countSeverity(locals.issues, "medium"),
     escalationMethods |-> Len(locals.detectedMethods)]

\* a variant with the summary of a clean policy
noStatementsResultWrongSummary ==
    [issues |-> <<>>, riskLevel |-> 0, detectedMethods |-> <<>>,
     summary |-> "No significant security issues detected"]

\* the early return for a missing document or a missing Statement field
noStatementsResult ==
    [issues |-> <<>>, riskLevel |-> 0, detectedMethods |-> <<>>,
     summary |-> "No policy statements found"]

\* analyzePolicyForShadowAdmin(policyDocument), reading the catalog global
analyzePolicyForShadowAdmin(doc, catalog) ==
    IF hasNoStatements(doc) THEN noStatementsResult
    ELSE LET scanned == scanStatements(InitialLocals, catalog, statementsOf(doc), 1)
             locals  == matchMethods(
                            wildcardResourceCheck(wildcardActionCheck(scanned)),
                            catalog, 1)
         IN  [issues |-> locals.issues,
              riskLevel |-> locals.maxRiskLevel,
              detectedMethods |-> locals.detectedMethods,
              summary |-> summaryOf(locals),
              stats |-> statsOf(locals)]

-----------------------------------------------------------------------------
(* The documents the analysis is applied to                                *)

MaxActionEntries == 2   \* Action entries per generated document, over all statements
MaxCalls == 2           \* calls per document in a sequence of calls

\* Action strings as a caller may write them
ActionList == <<"*", "IAM:*", "IAM:ATTACHUSERPOLICY", "sts:AssumeRole", "codestar:*">>

\* further Action strings, used in one-statement documents
MoreActions == <<"iam:AttachUserPolicy", "iam: PassRole", "iam:Attach*", "iam:*Policy",
                 "ec2:RunInstances", "lambda:*", "s3:GetObject", "iam:x:*", ":*",
                 "iam:* ", "* ">>

BucketArn == "arn:aws:s3:::bucket/*"

ResourceValues == {Str("*"), Str(BucketArn)}

\* the Action arrays with exactly k entries, entries in the order of ActionList
RECURSIVE arrayOfIndices(_, _)
arrayOfIndices(S, i) ==
    IF i > Len(ActionList) THEN <<>>
    ELSE (IF i \in S THEN <<ActionList[i]>> ELSE <<>>) \o arrayOfIndices(S, i + 1)

ActionArrays(k) ==
    {arrayOfIndices(S, 1) : S \in {T \in SUBSET (1..Len(ActionList)) : Cardinality(T) = k}}

\* a statement object; effect "" stands for a missing Effect field
Statement(effect, actions, resource) ==
    IF effect = ""
    THEN [type |-> "object", Resource |-> resource, Action |-> Arr(actions)]
    ELSE [type |-> "object", Resource |-> resource, Effect |-> effect,
          Action |-> Arr(actions)]

StatementsWith(k) ==
    {Statement(e, a, r) : e \in {"Allow", "Deny", ""}, a \in ActionArrays(k),
                          r \in ResourceValues}

Document(statements) ==
    [type |-> "object", Version |-> "2012-10-17", Statement |-> Arr(statements)]

\* documents without statements: null, undefined, and an object without Statement
DegenerateDocuments ==
    {[type |-> "null"], [type |-> "undefined"],
     [type |-> "object", Version |-> "2012-10-17"]}

\* the other shapes of the fields: Statement as one object or an empty array,
\* Action as one string, Action missing, Resource as an array, Resource missing
ShapeDocuments ==
    {[type |-> "object", Version |-> "2012-10-17",
      Statement |-> [type |-> "object", Effect |-> e, Action |-> Str(a),
                     Resource |-> r]] :
        e \in {"Allow", "Deny"}, a \in Range(ActionList) \cup Range(MoreActions),
        r \in ResourceValues \cup {Arr(<<BucketArn, "*">>)}}
    \cup
    {Document(<<[type |-> "object", Effect |-> e, Action |-> Str(a)]>>) :
        e \in {"Allow", "Deny"}, a \in Range(ActionList) \cup Range(MoreActions)}
    \cup
    {Document(<<[type |-> "object", Effect |-> e, NotAction |-> Str("s3:*"),
                 Resource |-> r]>>) :
        e \in {"Allow", "Deny"}, r \in ResourceValues}
    \cup {Document(<<>>)}

\* one Allow statement on Resource "*" holding exactly the required permissions
\* of a catalog technique, as the catalog writes them or in upper case
TechniqueDocument(m, upper) ==
    LET perms == EscalationCatalog[m].permissions
    IN  Document(<<[type |-> "object", Effect |-> "Allow",
                    Action |-> Arr([k \in 1..Len(perms) |->
                                       IF upper THEN toUpperCase(perms[k]) ELSE perms[k]]),
                    Resource |-> Str("*")]>>)

\* the two documents of the end-to-end scenarios, and iam:* in its letter cases
AttachUserPolicyDocument ==
    Document(<<[type |-> "object", Effect |-> "Allow",
                Action |-> Str("iam:AttachUserPolicy"), Resource |-> Str("*")]>>)

PassRoleToLambdaDocument ==
    Document(<<[type |-> "object", Effect |-> "Allow",
                Action |-> Arr(<<"iam:PassRole", "lambda:CreateFunction",
                                 "lambda:InvokeFunction">>),
                Resource |-> Str("*")]>>)

IamStarDocuments ==
    {Document(<<[type |-> "object", Effect |-> "Allow", Action |-> a, Resource |-> r]>>) :
        a \in {Str("iam:*"), Str("IAM:*"), Str("Iam:*"), Arr(<<"iam:*">>), Arr(<<"iAM:*">>)},
        r \in ResourceValues}

ScenarioDocuments ==
    {TechniqueDocument(m, upper) : m \in 1..Len(EscalationCatalog), upper \in BOOLEAN}
    \cup {AttachUserPolicyDocument, PassRoleToLambdaDocument}
    \cup IamStarDocuments

\* an Allow statement of one action with * in it, followed by a Deny statement
PartialWildcardDocuments ==
    {Document(<<Statement("Allow", <<a>>, Str("*")), Statement("Deny", <<d>>, Str("*"))>>) :
        a \in {"iam:Attach*", "iam:*Policy", "IAM:* ", "lambda:*"},
        d \in {"*", "s3:GetObject"}}

\* statements with the fields the analysis does not read: Sid, Condition,
\* NotAction and NotResource, beside Action and Resource or in their place
SourceIpCondition ==
    [type |-> "object",
     IpAddress |-> [type |-> "object", SourceIp |-> Str("203.0.113.0/24")]]

OtherFieldStatements ==
    {[type |-> "object", Sid |-> Str("AttachAny"), Effect |-> "Allow",
      Action |-> Str("iam:AttachUserPolicy"), Resource |-> Str("*"),
      Condition |-> SourceIpCondition],
     [type |-> "object", Effect |-> "Allow", Action |-> Str("iam:PassRole"),
      NotResource |-> Str(BucketArn)],
     [type |-> "object", Effect |-> "Allow", Action |-> Arr(<<"s3:GetObject">>),
      NotAction |-> Str("*"), Resource |-> Str("*")],
     [type |-> "object", Effect |-> "Allow", NotAction |-> Str("*"),
      Resource |-> Str("*")],
     [type |-> "object", Effect |-> "Allow", NotAction |-> Arr(<<"iam:*", "s3:*">>),
      NotResource |-> Str("*")],
     [type |-> "object", Sid |-> Str("DenyPassRole"), Effect |-> "Deny",
      NotAction |-> Str("iam:PassRole"), Resource |-> Str("*")],
     [type |-> "object", Sid |-> Str("DenyAttach"), Effect |-> "Deny",
      Action |-> Str("iam:AttachUserPolicy"), Resource |-> Str("*"),
      Condition |-> SourceIpCondition]}

OtherFieldDocuments ==
    {Document(<<st>>) : st \in OtherFieldStatements}
    \cup {Document(<<st1, st2>>) : st1 \in OtherFieldStatements, st2 \in OtherFieldStatements}
    \cup {Document(<<Statement("Allow", <<"IAM:*">>, Str("*")), st>>) :
              st \in OtherFieldStatements}

\* the documents written out one by one
ListedDocuments ==
    DegenerateDocuments \cup ShapeDocuments \cup ScenarioDocuments
        \cup PartialWildcardDocuments \cup OtherFieldDocuments

\* the documents analysed again and again in a sequence of calls
CallDocuments ==
    {AttachUserPolicyDocument, PassRoleToLambdaDocument,
     [type |-> "object", Version |-> "2012-10-17"],
     Document(<<Statement("Allow", <<"*">>, Str("*"))>>),
     Document(<<Statement("Allow", <<"IAM:*">>, Str(BucketArn)),
                Statement("Deny", <<"iam: PassRole">>, Str("*"))>>)}

-----------------------------------------------------------------------------
(* The state machine                                                       *)

\* nothing has been returned yet
NoResult == [pending |-> TRUE]

\* no document has been loaded yet
NoDocument == [type |-> "unloaded"]

\* the array object held by a property of a catalog entry
CatalogArray(methodName, field) ==
    [object |-> "ESCALATION_METHODS", method |-> methodName, field |-> field]

\* { method: methodName, ...methodInfo }: the spread copies the property values,
\* and the value of an array property is the reference to the array
spreadArrayRefs(methodName) ==
    [permissions |-> CatalogArray(methodName, "permissions"),
     optional |-> CatalogArray(methodName, "optional")]

\* the arrays behind the detectedMethods entries of a returned value
detectedRefsOf(res) ==
    [i \in 1..Len(res.detectedMethods) |-> spreadArrayRefs(res.detectedMethods[i].method)]

InitAnalysis ==
    /\ ESCALATION_METHODS = EscalationCatalog
    /\ policyDocument = NoDocument
    /\ result = NoResult
    /\ history = <<>>
    /\ detectedRefs = <<>>

\* JavaScript null
Null == [type |-> "null"]

\* window.app = window.app || {}  and  new PolicyExpansion()
InitExpansion ==
    /\ PolicyEditorConfig = [type |-> "undefined"]
    /\ awsData = Null
    /\ allActions = <<>>
    /\ isInitialized = FALSE
    /\ initializeCalls = <<>>
    /\ expansion = NoResult
    /\ expansionView = NoResult

\* no two versions have been compared yet
InitDiff ==
    /\ doc1 = NoDocument
    /\ doc2 = NoDocument
    /\ diff = NoResult
    /\ previousDiff = NoResult

\* App.init() has not been called and no listener is installed
InitApp ==
    /\ appInit = "new"
    /\ eventListeners = FALSE

\* new AWSHandler()
InitHandler ==
    /\ credentials = Null
    /\ iamClient = Null
    /\ stsClient = Null
    /\ currentIdentity = Null
    /\ hasFullListPermissions = Null
    /\ handlerCalls = <<>>

Init ==
    /\ InitAnalysis
    /\ InitExpansion
    /\ InitDiff
    /\ InitApp
    /\ InitHandler

\* policyDocument' is a document of one or more statements after those of prefix,
\* each with an Action entry, with at most budget Action entries in all
RECURSIVE LoadStatements(_, _)
LoadStatements(prefix, budget) ==
    \/ prefix # <<>> /\ policyDocument' = Document(prefix)
    \/ \E k \in 1..budget : \E st \in StatementsWith(k) :
           LoadStatements(Append(prefix, st), budget - k)

\* app.js showPolicyDetail: the policy document arrives from the handler
LoadDocument ==
    /\ policyDocument = NoDocument
    /\ \/ policyDocument' \in ListedDocuments
       \/ LoadStatements(<<>>, MaxActionEntries)
    /\ UNCHANGED <<ESCALATION_METHODS, result, history, detectedRefs>>
    /\ UNCHANGED <<expansionVars, diffVars, appVars, handlerVars>>

\* app.js showPolicyDetail: the analysis of the loaded document
Analyze ==
    /\ policyDocument # NoDocument
    /\ result = NoResult
    /\ result' = analyzePolicyForShadowAdmin(policyDocument, ESCALATION_METHODS)
    /\ detectedRefs' = detectedRefsOf(result')
    /\ UNCHANGED <<ESCALATION_METHODS, policyDocument, history>>
    /\ UNCHANGED <<expansionVars, diffVars, appVars, handlerVars>>

Next == LoadDocument \/ Analyze

Spec == Init /\ [][Next]_vars

recordCall(h, doc, res) ==
    IF doc \in DOMAIN h
    THEN [h EXCEPT ![doc].calls = @ + 1]
    ELSE (doc :> [first |-> res, calls |-> 1]) @@ h

\* a call that deletes the techniques it detected from the catalog
CallForgetting(doc) ==
    /\ doc \in DOMAIN history => history[doc].calls < MaxCalls
    /\ policyDocument' = doc
    /\ result' = analyzePolicyForShadowAdmin(doc, ESCALATION_METHODS)
    /\ history' = recordCall(history, doc, result')
    /\ detectedRefs' = detectedRefsOf(result')
    /\ UNCHANGED <<expansionVars, diffVars, appVars, handlerVars>>
    /\ ESCALATION_METHODS' =
           SelectSeq(ESCALATION_METHODS,
                     LAMBDA methodInfo :
                         \A i \in 1..Len(result'.detectedMethods) :
                             result'.detectedMethods[i].method # methodInfo.name)

\* analyzePolicyForShadowAdmin(doc): the catalog is read, never written
Call(doc) ==
    /\ doc \in DOMAIN history => history[doc].calls < MaxCalls
    /\ policyDocument' = doc
    /\ result' = analyzePolicyForShadowAdmin(doc, ESCALATION_METHODS)
    /\ history' = recordCall(history, doc, result')
    /\ detectedRefs' = detectedRefsOf(result')
    /\ UNCHANGED <<expansionVars, diffVars, appVars, handlerVars>>
    /\ UNCHANGED ESCALATION_METHODS

NextCalls == \E doc \in CallDocuments : Call(doc)

\* a sequence of calls on several documents, each recorded with its first result
SpecCalls == Init /\ [][NextCalls]_vars

Returned == result # NoResult

\* pushes by the caller onto arrays of a returned value, in one behaviour
MaxPushes == 1

\* the entries a caller has pushed so far, all arrays of the catalog counted
pushedEntries ==
    LET RECURSIVE count(_)
        count(m) ==
            IF m > Len(ESCALATION_METHODS) THEN 0
            ELSE (Len(ESCALATION_METHODS[m].permissions) - Len(EscalationCatalog[m].permissions))
                 + (Len(ESCALATION_METHODS[m].optional) - Len(EscalationCatalog[m].optional))
                 + count(m + 1)
    IN  count(1)

\* array.push(x) on the array object ref: every holder of the reference sees it
pushToArray(catalog, ref, x) ==
    [m \in 1..Len(catalog) |->
        IF ref.object = "ESCALATION_METHODS" /\ catalog[m].name = ref.method
        THEN (IF ref.field = "permissions"
              THEN [catalog[m] EXCEPT !.permissions = Append(@, x)]
              ELSE [catalog[m] EXCEPT !.optional = Append(@, x)])
        ELSE catalog[m]]

\* the returned value as its holder reads it after the push
pushSeenInResult(res, refs, ref, x) ==
    [res EXCEPT !.detectedMethods =
        [i \in 1..Len(res.detectedMethods) |->
            [res.detectedMethods[i] EXCEPT
                !.permissions = IF refs[i].permissions = ref THEN Append(@, x) ELSE @,
                !.optional = IF refs[i].optional = ref THEN Append(@, x) ELSE @]]]

\* a caller runs  result.detectedMethods[i][field].push(x)  on the value it holds
PushToDetected(i, field, x) ==
    /\ Returned
    /\ i \in DOMAIN detectedRefs
    /\ pushedEntries < MaxPushes
    /\ ESCALATION_METHODS' = pushToArray(ESCALATION_METHODS, detectedRefs[i][field], x)
    /\ result' = pushSeenInResult(result, detectedRefs, detectedRefs[i][field], x)
    /\ UNCHANGED <<policyDocument, history, detectedRefs>>
    /\ UNCHANGED <<expansionVars, diffVars, appVars, handlerVars>>

\* the documents that caller analyses
SharedDocuments ==
    {AttachUserPolicyDocument, PassRoleToLambdaDocument,
     Document(<<Statement("Allow", <<"iam:AttachUserPolicy", "iam:CreateUser">>,
                          Str(BucketArn))>>)}

NextShared ==
    \/ \E doc \in SharedDocuments : Call(doc)
    \/ \E i \in 1..Len(EscalationCatalog) : \E field \in {"permissions", "optional"} :
           PushToDetected(i, field, "iam:createuser")

\* calls on several documents by a caller that also writes into what it got back
SpecShared == Init /\ [][NextShared]_vars

-----------------------------------------------------------------------------
(* PolicyExpansion: the action catalog and the index built from it         *)

\* one entry of PolicyEditorConfig.serviceMap, under the key serviceName
Service(serviceName, prefix, actions) ==
    [name |-> serviceName, StringPrefix |-> prefix, Actions |-> actions]

\* the object the AWS policies script leaves in window.app.PolicyEditorConfig
ConfigOf(serviceMap) == [type |-> "object", serviceMap |-> serviceMap]

S3Service == Service("S3", "s3", <<"GetObject", "PutObject", "ListBucket">>)

IamService == Service("IAM", "iam", <<"PassRole", "GetObject">>)

\* a service with 97 actions, Op1 .. Op97
Ec2Service == Service("EC2", "ec2", [i \in 1..97 |-> "Op" \o ToString(i)])

S3Config == ConfigOf(<<S3Service>>)

IamS3Config == ConfigOf(<<IamService, S3Service>>)

\* 100 actions in two services
LargeConfig == ConfigOf(<<Ec2Service, S3Service>>)

\* the contents the script may have when it is fetched
ScriptConfigs == {S3Config, IamS3Config}

\* the inner loop of buildActionsIndex: `${prefix}:${action}` for each action
serviceActions(serviceData) ==
    [k \in 1..Len(serviceData.Actions) |->
        serviceData.StringPrefix \o ":" \o serviceData.Actions[k]]

\* the outer loop of buildActionsIndex, pushing onto actions
RECURSIVE indexServices(_, _, _)
indexServices(actions, serviceMap, m) ==
    IF m > Len(serviceMap) THEN actions
    ELSE indexServices(actions \o serviceActions(serviceMap[m]), serviceMap, m + 1)

\* a variant that keeps the entries already in allActions
buildActionsIndexNoReset(actions, data) == indexServices(actions, data.serviceMap, 1)

\* buildActionsIndex(): this.allActions = [] and then the two loops
buildActionsIndex(actions, data) == indexServices(<<>>, data.serviceMap, 1)

-----------------------------------------------------------------------------
(* PolicyExpansion.expandPattern and the regular expression it builds      *)

StarTable == [from |-> {"*"}, to |-> [c \in {"*"} |-> ".*"]]

\* cleanPattern.replace(/\*/g, '.*')
replaceStars(s) == mapChars(StarTable, s, 1, Len(s))

\* the quantifier characters of the regular expressions the inputs produce
RegexQuantifiers == {"*", "?"}

SyntaxError == [threw |-> TRUE, error |-> "SyntaxError"]

\* new RegExp(`^${pattern}$`, 'i') read from character i of pattern on: an atom
\* (a character, or . for any character), then an optional quantifier, then an
\* optional ? that makes the quantifier lazy; a quantifier without an atom
\* before it has nothing to repeat
RECURSIVE parseRegExp(_, _, _)
parseRegExp(pattern, i, tokens) ==
    IF i > Len(pattern) THEN [threw |-> FALSE, tokens |-> tokens]
    ELSE IF charAt(pattern, i) \in RegexQuantifiers THEN SyntaxError
    ELSE LET quantifier == IF i + 1 <= Len(pattern)
                              /\ charAt(pattern, i + 1) \in RegexQuantifiers
                           THEN charAt(pattern, i + 1) ELSE ""
             lazy == quantifier # "" /\ i + 2 <= Len(pattern)
                         /\ charAt(pattern, i + 2) = "?"
             next == i + 1 + (IF quantifier # "" THEN 1 ELSE 0) + (IF lazy THEN 1 ELSE 0)
         IN  parseRegExp(pattern, next,
                         Append(tokens, [atom |-> toLowerCase(charAt(pattern, i)),
                                         quantifier |-> quantifier]))

newRegExp(pattern) == parseRegExp(pattern, 1, <<>>)

\* whether the atom matches the character c (the i flag: letter case is ignored)
atomMatches(atom, c) == atom = "." \/ atom = c

\* whether tokens i.. match the characters j.. of s up to its end ($)
RECURSIVE matchFrom(_, _, _, _)
matchFrom(tokens, s, i, j) ==
    IF i > Len(tokens) THEN j > Len(s)
    ELSE LET here == j <= Len(s) /\ atomMatches(tokens[i].atom, charAt(s, j))
         IN  IF tokens[i].quantifier = "*"
             THEN matchFrom(tokens, s, i + 1, j) \/ (here /\ matchFrom(tokens, s, i, j + 1))
             ELSE IF tokens[i].quantifier = "?"
             THEN matchFrom(tokens, s, i + 1, j) \/ (here /\ matchFrom(tokens, s, i + 1, j + 1))
             ELSE here /\ matchFrom(tokens, s, i + 1, j + 1)

\* regex.test(action)
regexTest(regex, action) == matchFrom(regex.tokens, toLowerCase(action), 1, 1)

\* array.slice(0, n)
sliceFirst(arr, n) == SubSeq(arr, 1, IF Len(arr) < n THEN Len(arr) ELSE n)

\* the expansion object once expandedActions is known
expansionOf(actionPattern, expandedActions) ==
    [originalPattern |-> actionPattern,
     hasWildcard |-> includes(actionPattern, "*"),
     expandedActions |-> expandedActions,
     expandedCount |-> Len(expandedActions),
     sampleActions |-> sliceFirst(expandedActions, 5),
     isNotAction |-> startsWith(actionPattern, "NOT:")]

\* expandPattern(actionPattern), reading this.allActions
expandPattern(actionPattern, actions) ==
    LET cleanPattern == IF startsWith(actionPattern, "NOT:")
                        THEN SubSeq(actionPattern, 5, Len(actionPattern))
                        ELSE actionPattern
    IN  IF includes(actionPattern, "*")
        THEN LET regex == newRegExp(replaceStars(cleanPattern))
             IN  IF regex.threw THEN regex
                 ELSE LET matchedActions ==
                              SelectSeq(actions, LAMBDA action : regexTest(regex, action))
                      IN  IF Len(matchedActions) = 0
                          THEN expansionOf(actionPattern, <<cleanPattern>>)
                          ELSE expansionOf(actionPattern, matchedActions)
        ELSE expansionOf(actionPattern, <<cleanPattern>>)

-----------------------------------------------------------------------------
(* PolicyExpansion.analyzeStatement and analyzePolicy                      *)

\* the characters of the service names in the order of their code units
CodeUnitOrder == " 0123456789ABCDEFGHIJKLMNOPQRSTUVWXYZabcdefghijklmnopqrstuvwxyz"

codeUnit(c) == CHOOSE i \in 1..Len(CodeUnitOrder) : charAt(CodeUnitOrder, i) = c

\* a < b as Array.prototype.sort compares two strings without a comparator
RECURSIVE stringLess(_, _, _)
stringLess(a, b, i) ==
    IF i > Len(b) THEN FALSE
    ELSE IF i > Len(a) THEN TRUE
    ELSE IF charAt(a, i) = charAt(b, i) THEN stringLess(a, b, i + 1)
    ELSE codeUnit(charAt(a, i)) < codeUnit(charAt(b, i))

\* Array.from(set).sort()
RECURSIVE sortedArrayFrom(_)
sortedArrayFrom(set) ==
    IF set = {} THEN <<>>
    ELSE LET least == CHOOSE a \in set : \A b \in set : ~stringLess(b, a, 1)
         IN  <<least>> \o sortedArrayFrom(set \ {least})

\* getServiceFromAction(action): the key of the first service with that prefix
getServiceFromAction(action, data) ==
    LET prefix == splitFirst(action)
        found  == {m \in 1..Len(data.serviceMap) : data.serviceMap[m].StringPrefix = prefix}
    IN  IF found = {} THEN "Unknown Service"
        ELSE data.serviceMap[CHOOSE m \in found : \A n \in found : m <= n].name

\* statement.NotAction as an array, [] when it is missing
notActionsOf(statement) ==
    IF "NotAction" \in DOMAIN statement
    THEN (IF isArray(statement.NotAction) THEN statement.NotAction.val
                                          ELSE <<statement.NotAction.val>>)
    ELSE <<>>

\* analysis.patterns: the actions, then each NotAction entry as `NOT:${action}`
patternsOf(statement) ==
    actionsOf(statement)
        \o [k \in 1..Len(notActionsOf(statement)) |-> "NOT:" \o notActionsOf(statement)[k]]

\* the services of the expanded actions of all expansions, as a set
servicesOf(expansions, data) ==
    UNION {{getServiceFromAction(expansions[k].expandedActions[n], data) :
                n \in 1..Len(expansions[k].expandedActions)} : k \in 1..Len(expansions)}

\* the sum of expandedCount over expansions k..
RECURSIVE sumExpandedCount(_, _)
sumExpandedCount(expansions, k) ==
    IF k > Len(expansions) THEN 0
    ELSE expansions[k].expandedCount + sumExpandedCount(expansions, k + 1)

\* analyzeStatement(statement, index); an error thrown by expandPattern goes up
analyzeStatement(statement, index, actions, data) ==
    LET patterns   == patternsOf(statement)
        expansions == [k \in 1..Len(patterns) |-> expandPattern(patterns[k], actions)]
    IN  IF \E k \in 1..Len(patterns) : "threw" \in DOMAIN expansions[k]
        THEN SyntaxError
        ELSE [index |-> index + 1,
              effect |-> effectOf(statement),
              patterns |-> patterns,
              wildcardPatterns |->
                  Cardinality({k \in 1..Len(patterns) : expansions[k].hasWildcard}),
              exactPatterns |->
                  Cardinality({k \in 1..Len(patterns) : ~expansions[k].hasWildcard}),
              totalExpandedActions |-> sumExpandedCount(expansions, 1),
              servicesAffected |-> sortedArrayFrom(servicesOf(expansions, data)),
              expansions |-> expansions]

\* greatest common divisor
RECURSIVE gcd(_, _)
gcd(a, b) == IF b = 0 THEN a ELSE gcd(b, a % b)

\* the number a / b, kept exact as a fraction in lowest terms
quotient(a, b) == [num |-> a \div gcd(a, b), den |-> b \div gcd(a, b)]

\* the number 0
Zero == [num |-> 0, den |-> 1]

\* ratio >= n
atLeast(ratio, n) == ratio.num >= n * ratio.den

\* a variant that keeps the services of the last statement alone
expansionSummaryLastServices(statements, data) ==
    LET RECURSIVE sum(_, _)
        sum(field, k) ==
            IF k > Len(statements) THEN 0
            ELSE statements[k][field] + sum(field, k + 1)
        RECURSIVE countPatterns(_)
        countPatterns(k) ==
            IF k > Len(statements) THEN 0
            ELSE Len(statements[k].patterns) + countPatterns(k + 1)
        totalPatterns == countPatterns(1)
        totalExpandedActions == sum("totalExpandedActions", 1)
    IN  [totalStatements |-> Len(statements),
         totalPatterns |-> totalPatterns,
         wildcardPatterns |-> sum("wildcardPatterns", 1),
         exactPatterns |-> sum("exactPatterns", 1),
         totalExpandedActions |-> totalExpandedActions,
         expansionRatio |-> IF totalPatterns > 0
                            THEN quotient(totalExpandedActions, totalPatterns)
                            ELSE Zero,
         servicesAffected |->
             sortedArrayFrom(UNION {Range(statements[k].servicesAffected) :
                                        k \in {Len(statements)} \ {0}})]

\* the summary once the statements are analysed
expansionSummary(statements, data) ==
    LET RECURSIVE sum(_, _)
        sum(field, k) ==
            IF k > Len(statements) THEN 0
            ELSE statements[k][field] + sum(field, k + 1)
        RECURSIVE countPatterns(_)
        countPatterns(k) ==
            IF k > Len(statements) THEN 0
            ELSE Len(statements[k].patterns) + countPatterns(k + 1)
        totalPatterns == countPatterns(1)
        totalExpandedActions == sum("totalExpandedActions", 1)
    IN  [totalStatements |-> Len(statements),
         totalPatterns |-> totalPatterns,
         wildcardPatterns |-> sum("wildcardPatterns", 1),
         exactPatterns |-> sum("exactPatterns", 1),
         totalExpandedActions |-> totalExpandedActions,
         expansionRatio |-> IF totalPatterns > 0
                            THEN quotient(totalExpandedActions, totalPatterns)
                            ELSE Zero,
         servicesAffected |->
             sortedArrayFrom(UNION {Range(statements[k].servicesAffected) :
                                        k \in 1..Len(statements)})]

NotInitializedError ==
    [threw |-> TRUE, error |-> "PolicyExpansion not initialized. Call initialize() first."]

\* the value returned for a missing document or a missing Statement field
invalidPolicyResult ==
    [isValid |-> FALSE,
     errors |-> <<"Policy must contain a Statement field">>,
     summary |-> [totalStatements |-> 0, totalPatterns |-> 0, wildcardPatterns |-> 0,
                  exactPatterns |-> 0, totalExpandedActions |-> 0,
                  expansionRatio |-> Zero,
                  servicesAffected |-> [type |-> "Set", entries |-> <<>>]],
     statements |-> <<>>]

\* a variant that tests this.awsData in place of this.isInitialized
analyzePolicyTestingData(doc, initialized, actions, data) ==
    IF data = [type |-> "null"] THEN NotInitializedError
    ELSE IF hasNoStatements(doc) THEN invalidPolicyResult
    ELSE LET statements == [k \in 1..Len(statementsOf(doc)) |->
                               analyzeStatement(statementsOf(doc)[k], k - 1, actions, data)]
         IN  IF \E k \in 1..Len(statements) : "threw" \in DOMAIN statements[k]
             THEN SyntaxError
             ELSE [isValid |-> TRUE, errors |-> <<>>,
                   summary |-> expansionSummary(statements, data),
                   statements |-> statements]

\* analyzePolicy(policyDocument), reading isInitialized, allActions and awsData
analyzePolicy(doc, initialized, actions, data) ==
    IF ~initialized THEN NotInitializedError
    ELSE IF hasNoStatements(doc) THEN invalidPolicyResult
    ELSE LET statements == [k \in 1..Len(statementsOf(doc)) |->
                               analyzeStatement(statementsOf(doc)[k], k - 1, actions, data)]
         IN  IF \E k \in 1..Len(statements) : "threw" \in DOMAIN statements[k]
             THEN SyntaxError
             ELSE [isValid |-> TRUE, errors |-> <<>>,
                   summary |-> expansionSummary(statements, data),
                   statements |-> statements]

\* a variant whose critical band starts above 100
getImpactLevelAbove100(expansionRatio) ==
    IF expansionRatio.num > 100 * expansionRatio.den THEN "critical"
    ELSE IF atLeast(expansionRatio, 50) THEN "high"
    ELSE IF atLeast(expansionRatio, 10) THEN "medium"
    ELSE "low"

\* PolicyExpansion.getImpactLevel(expansionRatio)
getImpactLevel(expansionRatio) ==
    IF atLeast(expansionRatio, 100) THEN "critical"
    ELSE IF atLeast(expansionRatio, 50) THEN "high"
    ELSE IF atLeast(expansionRatio, 10) THEN "medium"
    ELSE "low"

\* SecurityVisualizer.getExpansionImpactLevel(ratio)
getExpansionImpactLevel(ratio) ==
    IF atLeast(ratio, 100) THEN "critical"
    ELSE IF atLeast(ratio, 50) THEN "high"
    ELSE IF atLeast(ratio, 10) THEN "medium"
    ELSE "low"

-----------------------------------------------------------------------------
(* PolicyExpansion: initialize() and the handler that runs the analysis    *)

\* initialize() calls in one behaviour
MaxInitializeCalls == 2

\* the documents handed to analyzePolicy while the engine is being initialized
ExpansionDocuments ==
    {[type |-> "object", Version |-> "2012-10-17"],
     Document(<<Statement("Allow", <<"s3:Get*", "iam:PassRole">>, Str("*"))>>),
     Document(<<Statement("Allow", <<"s3:*??">>, Str("*"))>>)}

\* the Action and NotAction entries of the documents analysed after that: exact
\* names, names in another letter case, patterns with one or more *, patterns
\* that match nothing, and patterns with the characters ? and .
PatternList ==
    <<"s3:Get*", "s3:*", "S3:*OBJECT", "*", "*:*t", "ec2:*", "ec2:Op*7", "ec2:Op*9",
      "iam:*", "s3:getobject", "sqs:SendMessage", "lambda:*", "s3:***", "s3:G*t*b*",
      "s3:GetO?*", "s3:Get.bject*", "s3.*", "s3:*??", "?*", "s3:Get?bject">>

PatternDocuments ==
    {Document(<<Statement("Allow", <<PatternList[k]>>, Str("*"))>>) :
        k \in 1..Len(PatternList)}
    \cup
    {Document(<<[type |-> "object", Effect |-> "Deny",
                 NotAction |-> Str(PatternList[k]), Resource |-> Str("*")]>>) :
        k \in 1..Len(PatternList)}
    \cup
    {[type |-> "null"],
     [type |-> "object", Version |-> "2012-10-17"],
     Document(<<>>),
     [type |-> "object", Version |-> "2012-10-17",
      Statement |-> [type |-> "object", Effect |-> "Allow", Action |-> Str("S3:*"),
                     Resource |-> Str("*")]],
     Document(<<Statement("Allow", <<"ec2:*", "s3:*">>, Str("*"))>>),
     Document(<<Statement("Allow", <<"ec2:*">>, Str("*")),
                Statement("Deny", <<"s3:getobject">>, Str("*"))>>),
     Document(<<Statement("", <<"ec2:Op*7", "ec2:Op*9">>, Str("*"))>>),
     Document(<<Statement("Allow", <<"*", "*">>, Str("*")),
                Statement("Allow", <<"*">>, Str(BucketArn))>>),
     Document(<<[type |-> "object", Effect |-> "Allow",
                 NotAction |-> Arr(<<"s3:Put*", "iam:*">>), Resource |-> Str("*")],
                Statement("Allow", <<"s3:*", "s3:*Object">>, Str(BucketArn))>>),
     Document(<<[type |-> "object", Effect |-> "Allow", Action |-> Str("s3:*"),
                 NotAction |-> Str("s3:GetObject"), Resource |-> Str("*")]>>),
     Document(<<Statement("Allow", <<"NOT:s3:*">>, Str("*"))>>),
     Document(<<[type |-> "object", Effect |-> "Deny", NotAction |-> Str("NOT:s3:*"),
                 Resource |-> Str("*")]>>)}

\* what a call of initialize() records about itself
CallAt(pc) == [pc |-> pc]
CallFailing(pc, error) == [pc |-> pc, error |-> error]

\* initialize(), up to its first await: the early return when the flag is set,
\* else loadAWSData, which resolves at once when the data is already there and
\* otherwise adds the script element and waits for it
initializeStart ==
    /\ Len(initializeCalls) < MaxInitializeCalls
    /\ IF isInitialized
       THEN /\ initializeCalls' = Append(initializeCalls, CallAt("returned"))
            /\ UNCHANGED awsData
       ELSE IF PolicyEditorConfig.type = "object"
       THEN /\ awsData' = PolicyEditorConfig
            /\ initializeCalls' = Append(initializeCalls, CallAt("resolved"))
       ELSE /\ initializeCalls' = Append(initializeCalls, CallAt("loading"))
            /\ UNCHANGED awsData
    /\ UNCHANGED <<PolicyEditorConfig, allActions, isInitialized, expansion, expansionView>>
    /\ UNCHANGED <<analysisVars, diffVars, handlerVars>>

\* a call of initialize() by a caller other than App.init
Initialize ==
    /\ initializeStart
    /\ UNCHANGED appVars

\* script.onload for call c, after the script ran and left config in window.app
OnLoad(c, config) ==
    /\ c \in DOMAIN initializeCalls
    /\ initializeCalls[c].pc = "loading"
    /\ PolicyEditorConfig' = config
    /\ IF config.type = "object"
       THEN /\ awsData' = config
            /\ initializeCalls' = [initializeCalls EXCEPT ![c] = CallAt("resolved")]
       ELSE /\ initializeCalls' =
                   [initializeCalls EXCEPT ![c] =
                       CallFailing("rejected",
                                   "AWS policies script loaded but data not available")]
            /\ UNCHANGED awsData
    /\ UNCHANGED <<allActions, isInitialized, expansion, expansionView>>
    /\ UNCHANGED <<analysisVars, diffVars, appVars, handlerVars>>

\* the script is fetched and run: it sets the data, or it is not the expected
\* script and leaves window.app as it was
ScriptLoad(c) ==
    \/ \E config \in ScriptConfigs : OnLoad(c, config)
    \/ OnLoad(c, PolicyEditorConfig)

\* script.onerror for call c
ScriptError(c) ==
    /\ c \in DOMAIN initializeCalls
    /\ initializeCalls[c].pc = "loading"
    /\ initializeCalls' =
           [initializeCalls EXCEPT ![c] =
               CallFailing("rejected", "Failed to load AWS policies script")]
    /\ UNCHANGED <<PolicyEditorConfig, awsData, allActions, isInitialized, expansion,
                   expansionView>>
    /\ UNCHANGED <<analysisVars, diffVars, appVars, handlerVars>>

\* initialize() after a rejected load: the catch block logs and rethrows
InitializeCatch(c) ==
    /\ c \in DOMAIN initializeCalls
    /\ initializeCalls[c].pc = "rejected"
    /\ initializeCalls' =
           [initializeCalls EXCEPT ![c] = CallFailing("threw", initializeCalls[c].error)]
    /\ UNCHANGED <<PolicyEditorConfig, awsData, allActions, isInitialized, expansion,
                   expansionView>>
    /\ UNCHANGED <<analysisVars, diffVars, appVars, handlerVars>>

\* initialize() after the await: buildActionsIndex() and the flag
InitializeResume(c) ==
    /\ c \in DOMAIN initializeCalls
    /\ initializeCalls[c].pc = "resolved"
    /\ allActions' = buildActionsIndex(allActions, awsData)
    /\ isInitialized' = TRUE
    /\ initializeCalls' = [initializeCalls EXCEPT ![c] = CallAt("completed")]
    /\ UNCHANGED <<PolicyEditorConfig, awsData, expansion, expansionView>>
    /\ UNCHANGED <<analysisVars, diffVars, appVars, handlerVars>>

\* what renderExpansionAnalysis leaves on the page for an outcome of analyzePolicy
viewOf(outcome) ==
    IF "threw" \in DOMAIN outcome
    THEN [kind |-> "error", text |-> "Error analyzing policy: " \o outcome.error]
    ELSE IF ~outcome.isValid
    THEN [kind |-> "caption", text |-> "Unable to analyze policy expansion"]
    ELSE [kind |-> "summary",
          impactLevel |-> getExpansionImpactLevel(outcome.summary.expansionRatio)]

\* analyzePolicy(doc) and renderPolicyExpansion inside the try block of app.js
\* renderExpansionAnalysis, for a caller that hands doc to the engine; the page
\* is rendered once more only after the engine was found uninitialized
RenderExpansionAnalysis(doc) ==
    /\ expansion = NoResult \/ expansion = NotInitializedError
    /\ policyDocument' = doc
    /\ expansion' = analyzePolicy(doc, isInitialized, allActions, awsData)
    /\ expansionView' = viewOf(expansion')
    /\ UNCHANGED <<PolicyEditorConfig, awsData, allActions, isInitialized, initializeCalls>>
    /\ UNCHANGED <<ESCALATION_METHODS, result, history, detectedRefs>>
    /\ UNCHANGED <<diffVars, appVars, handlerVars>>

NextExpansion ==
    \/ Initialize
    \/ \E c \in 1..MaxInitializeCalls : ScriptLoad(c)
    \/ \E c \in 1..MaxInitializeCalls : ScriptError(c)
    \/ \E c \in 1..MaxInitializeCalls : InitializeResume(c)
    \/ \E c \in 1..MaxInitializeCalls : InitializeCatch(c)
    \/ \E doc \in ExpansionDocuments : RenderExpansionAnalysis(doc)

\* the expansion engine from its construction on
SpecExpansion == Init /\ [][NextExpansion]_vars

\* the data a page that already includes the AWS policies script starts with
LoadedConfigs == {S3Config, IamS3Config, LargeConfig}

InitLoaded ==
    /\ InitAnalysis
    /\ InitDiff
    /\ InitApp
    /\ InitHandler
    /\ PolicyEditorConfig \in LoadedConfigs
    /\ awsData = Null
    /\ allActions = <<>>
    /\ isInitialized = FALSE
    /\ initializeCalls = <<>>
    /\ expansion = NoResult
    /\ expansionView = NoResult

\* app.js init(): the handlers that render are set up once initialize() is over
RenderWhenReady(doc) ==
    /\ isInitialized
    /\ RenderExpansionAnalysis(doc)

NextPatterns ==
    \/ Initialize
    \/ \E c \in 1..MaxInitializeCalls : InitializeResume(c)
    \/ \E doc \in PatternDocuments : RenderWhenReady(doc)

\* the expansion engine on a page where the data is there from the start
SpecPatterns == InitLoaded /\ [][NextPatterns]_vars

-----------------------------------------------------------------------------
(* App: start-up, showPolicyDetail and the expansion view                  *)

\* new App(): the constructor calls init(), which calls initialize() and awaits it
AppConstruct ==
    /\ appInit = "new"
    /\ initializeCalls = <<>>
    /\ initializeStart
    /\ appInit' = "awaiting"
    /\ UNCHANGED eventListeners

\* init() after the await, when initialize() has resolved
AppInitResume ==
    /\ appInit = "awaiting"
    /\ initializeCalls[1].pc \in {"completed", "returned"}
    /\ appInit' = "initialized"
    /\ eventListeners' = TRUE
    /\ UNCHANGED <<analysisVars, expansionVars, diffVars, handlerVars>>

\* a variant of the catch block that gives up
AppInitCatchGivingUp ==
    /\ appInit = "awaiting"
    /\ initializeCalls[1].pc = "threw"
    /\ appInit' = "initialized (without expansion analysis)"
    /\ UNCHANGED eventListeners
    /\ UNCHANGED <<analysisVars, expansionVars, diffVars, handlerVars>>

\* the catch block of init(), when initialize() has rejected
AppInitCatch ==
    /\ appInit = "awaiting"
    /\ initializeCalls[1].pc = "threw"
    /\ appInit' = "initialized (without expansion analysis)"
    /\ eventListeners' = TRUE
    /\ UNCHANGED <<analysisVars, expansionVars, diffVars, handlerVars>>

\* showPolicyDetail once the policy has arrived: the security analysis of
\* result.data.currentVersion.Document
ShowPolicyDetail(doc) ==
    /\ eventListeners
    /\ policyDocument' = doc
    /\ result' = analyzePolicyForShadowAdmin(doc, ESCALATION_METHODS)
    /\ detectedRefs' = detectedRefsOf(result')
    /\ UNCHANGED <<ESCALATION_METHODS, history>>
    /\ UNCHANGED <<expansionVars, diffVars, appVars, handlerVars>>

\* this.currentPolicy.Document: currentPolicy is result.data, whose fields are
\* policy, currentVersion and allVersions
currentPolicyDocument == [type |-> "undefined"]

\* switchView('expansion'): renderExpansionAnalysis()
SwitchToExpansion ==
    /\ eventListeners
    /\ IF policyDocument = NoDocument
       THEN /\ expansionView' = [kind |-> "caption",
                                 text |-> "No policy loaded for expansion analysis"]
            /\ UNCHANGED expansion
       ELSE /\ expansion' = analyzePolicy(currentPolicyDocument, isInitialized,
                                          allActions, awsData)
            /\ expansionView' = viewOf(expansion')
    /\ UNCHANGED <<PolicyEditorConfig, awsData, allActions, isInitialized, initializeCalls>>
    /\ UNCHANGED <<analysisVars, diffVars, appVars, handlerVars>>

\* the documents of the policies that are shown
AppDocuments == CallDocuments \cup DegenerateDocuments \cup IamStarDocuments

NextApp ==
    \/ AppConstruct
    \/ ScriptLoad(1)
    \/ ScriptError(1)
    \/ InitializeResume(1)
    \/ InitializeCatch(1)
    \/ AppInitResume
    \/ AppInitCatch
    \/ \E doc \in AppDocuments : ShowPolicyDetail(doc)
    \/ SwitchToExpansion

\* the application from new App() on; the continuations of settled promises
\* are run, while the script may never load
SpecApp ==
    /\ Init
    /\ [][NextApp]_vars
    /\ WF_vars(InitializeResume(1))
    /\ WF_vars(InitializeCatch(1))
    /\ WF_vars(AppInitResume)
    /\ WF_vars(AppInitCatch)

-----------------------------------------------------------------------------
(* AWSHandler: initialize, disconnect and the asynchronous calls           *)

MaxHandlerCalls == 3   \* calls made on the handler in one behaviour

\* the access key ids typed into the credential form
AccessKeys == {"AKIAONE", "AKIATWO"}

\* new IAMClient(clientConfig) and new STSClient(clientConfig)
clientOf(service, config) == [service |-> service, credentials |-> config]

\* what the handler's caller sees of a call that is over
returnedCall(op, success) == [op |-> op, pc |-> "returned", success |-> success]

\* a call that waits for the answer to a request sent through client
awaitingCall(op, pc, client) == [op |-> op, pc |-> pc, client |-> client]

\* initialize(accessKeyId, secretAccessKey, sessionToken, region)
HandlerInitialize(accessKeyId) ==
    /\ Len(handlerCalls) < MaxHandlerCalls
    /\ credentials' = [accessKeyId |-> accessKeyId]
    /\ iamClient' = clientOf("iam", credentials')
    /\ stsClient' = clientOf("sts", credentials')
    /\ hasFullListPermissions' = Null
    /\ handlerCalls' = Append(handlerCalls, returnedCall("initialize", TRUE))
    /\ UNCHANGED currentIdentity
    /\ UNCHANGED <<analysisVars, expansionVars, diffVars, appVars>>

\* a variant of disconnect() that keeps the credentials
DisconnectKeepingCredentials ==
    /\ Len(handlerCalls) < MaxHandlerCalls
    /\ iamClient' = Null
    /\ stsClient' = Null
    /\ currentIdentity' = Null
    /\ hasFullListPermissions' = Null
    /\ handlerCalls' = Append(handlerCalls, returnedCall("disconnect", TRUE))
    /\ UNCHANGED credentials
    /\ UNCHANGED <<analysisVars, expansionVars, diffVars, appVars>>

\* disconnect()
Disconnect ==
    /\ Len(handlerCalls) < MaxHandlerCalls
    /\ iamClient' = Null
    /\ stsClient' = Null
    /\ credentials' = Null
    /\ currentIdentity' = Null
    /\ hasFullListPermissions' = Null
    /\ handlerCalls' = Append(handlerCalls, returnedCall("disconnect", TRUE))
    /\ UNCHANGED <<analysisVars, expansionVars, diffVars, appVars>>

\* isInitialized()
handlerIsInitialized == iamClient # Null

\* testConnection() up to its await: this.stsClient.send throws a TypeError
\* inside the try block when stsClient is null
TestConnection ==
    /\ Len(handlerCalls) < MaxHandlerCalls
    /\ handlerCalls' =
           Append(handlerCalls,
                  IF stsClient = Null THEN returnedCall("testConnection", FALSE)
                  ELSE awaitingCall("testConnection", "awaiting identity", stsClient))
    /\ UNCHANGED <<credentials, iamClient, stsClient, currentIdentity,
                   hasFullListPermissions>>
    /\ UNCHANGED <<analysisVars, expansionVars, diffVars, appVars>>

\* testConnection() after the await: the identity of the answer is stored, or
\* the error of the request is returned
TestConnectionResume(c, answered) ==
    /\ c \in DOMAIN handlerCalls
    /\ handlerCalls[c].pc = "awaiting identity"
    /\ handlerCalls' = [handlerCalls EXCEPT ![c] = returnedCall("testConnection", answered)]
    /\ IF answered
       THEN currentIdentity' =
                [arn |-> "arn:aws:iam::123456789012:user/"
                             \o handlerCalls[c].client.credentials.accessKeyId,
                 userName |-> handlerCalls[c].client.credentials.accessKeyId,
                 isIamUser |-> TRUE]
       ELSE UNCHANGED currentIdentity
    /\ UNCHANGED <<credentials, iamClient, stsClient, hasFullListPermissions>>
    /\ UNCHANGED <<analysisVars, expansionVars, diffVars, appVars>>

\* the outcome of tryListAllPolicies or of one of the sends of
\* getCompletePolicyInfo, which the caller awaits
settledCall(op, success, error) ==
    [op |-> op, pc |-> "settled", success |-> success, error |-> error]

\* the next this.iamClient.send of a call, or the TypeError it throws when
\* iamClient is null, caught by the try block around it
sendOrFail(op, pc) ==
    IF iamClient = Null
    THEN settledCall(op, FALSE, "Cannot read properties of null (reading 'send')")
    ELSE awaitingCall(op, pc, iamClient)

\* listAllPolicies() up to the first send of tryListAllPolicies
ListAllPolicies ==
    /\ Len(handlerCalls) < MaxHandlerCalls
    /\ handlerCalls' = Append(handlerCalls, sendOrFail("listAllPolicies", "awaiting AWS"))
    /\ UNCHANGED <<credentials, iamClient, stsClient, currentIdentity,
                   hasFullListPermissions>>
    /\ UNCHANGED <<analysisVars, expansionVars, diffVars, appVars>>

\* the answers to a ListPolicies request
ListAnswers == {"ok", "User is not authorized to perform: iam:ListPolicies", "NetworkError"}

\* tryListAllPolicies after a send: the policies of scope AWS, then those of
\* scope Local, and the result; an error ends it with the error's message
ListPoliciesResume(c, answer) ==
    /\ c \in DOMAIN handlerCalls
    /\ handlerCalls[c].pc \in {"awaiting AWS", "awaiting Local"}
    /\ handlerCalls' =
           [handlerCalls EXCEPT ![c] =
               IF answer # "ok" THEN settledCall("listAllPolicies", FALSE, answer)
               ELSE IF handlerCalls[c].pc = "awaiting AWS"
               THEN sendOrFail("listAllPolicies", "awaiting Local")
               ELSE settledCall("listAllPolicies", TRUE, "")]
    /\ UNCHANGED <<credentials, iamClient, stsClient, currentIdentity,
                   hasFullListPermissions>>
    /\ UNCHANGED <<analysisVars, expansionVars, diffVars, appVars>>

\* listAllPolicies() after tryListAllPolicies: the flag is set, and with a
\* 'not authorized' error listUserAttachedPolicies runs up to its first send
ListAllPoliciesResume(c) ==
    /\ c \in DOMAIN handlerCalls
    /\ handlerCalls[c].op = "listAllPolicies"
    /\ handlerCalls[c].pc = "settled"
    /\ IF handlerCalls[c].success
       THEN /\ hasFullListPermissions' = TRUE
            /\ handlerCalls' = [handlerCalls EXCEPT ![c] = returnedCall("listAllPolicies", TRUE)]
       ELSE IF includes(handlerCalls[c].error, "not authorized")
       THEN /\ hasFullListPermissions' = FALSE
            /\ handlerCalls' =
                   [handlerCalls EXCEPT ![c] =
                       IF currentIdentity = Null
                       THEN returnedCall("listAllPolicies", FALSE)
                       ELSE IF iamClient = Null
                       THEN returnedCall("listAllPolicies", FALSE)
                       ELSE awaitingCall("listAllPolicies", "awaiting attached", iamClient)]
       ELSE /\ UNCHANGED hasFullListPermissions
            /\ handlerCalls' = [handlerCalls EXCEPT ![c] = returnedCall("listAllPolicies", FALSE)]
    /\ UNCHANGED <<credentials, iamClient, stsClient, currentIdentity>>
    /\ UNCHANGED <<analysisVars, expansionVars, diffVars, appVars>>

\* listUserAttachedPolicies after its sends: errors are logged, and the call
\* succeeds when some policy was found
ListAttachedResume(c, found) ==
    /\ c \in DOMAIN handlerCalls
    /\ handlerCalls[c].pc = "awaiting attached"
    /\ handlerCalls' = [handlerCalls EXCEPT ![c] = returnedCall("listAllPolicies", found)]
    /\ UNCHANGED <<credentials, iamClient, stsClient, currentIdentity,
                   hasFullListPermissions>>
    /\ UNCHANGED <<analysisVars, expansionVars, diffVars, appVars>>

\* getCompletePolicyInfo(policyArn) up to the send of getPolicyDetails
GetCompletePolicyInfo ==
    /\ Len(handlerCalls) < MaxHandlerCalls
    /\ handlerCalls' =
           Append(handlerCalls, sendOrFail("getCompletePolicyInfo", "awaiting details"))
    /\ UNCHANGED <<credentials, iamClient, stsClient, currentIdentity,
                   hasFullListPermissions>>
    /\ UNCHANGED <<analysisVars, expansionVars, diffVars, appVars>>

\* getCompletePolicyInfo after getPolicyDetails, getPolicyVersion or
\* listPolicyVersions has settled: a failure of the first two is returned, a
\* failure of the third, a send on a null iamClient included, leaves allVersions
\* empty
GetCompletePolicyInfoResume(c, answered) ==
    /\ c \in DOMAIN handlerCalls
    /\ handlerCalls[c].op = "getCompletePolicyInfo"
    /\ handlerCalls[c].pc \in {"awaiting details", "awaiting version", "awaiting versions",
                               "settled"}
    /\ handlerCalls[c].pc = "settled" => ~answered
    /\ handlerCalls' =
           [handlerCalls EXCEPT ![c] =
               IF handlerCalls[c].pc = "awaiting versions"
               THEN returnedCall("getCompletePolicyInfo", TRUE)
               ELSE IF ~answered
               THEN returnedCall("getCompletePolicyInfo", FALSE)
               ELSE IF handlerCalls[c].pc = "awaiting details"
               THEN sendOrFail("getCompletePolicyInfo", "awaiting version")
               ELSE awaitingCall("getCompletePolicyInfo", "awaiting versions", iamClient)]
    /\ UNCHANGED <<credentials, iamClient, stsClient, currentIdentity,
                   hasFullListPermissions>>
    /\ UNCHANGED <<analysisVars, expansionVars, diffVars, appVars>>

NextHandler ==
    \/ \E accessKeyId \in AccessKeys : HandlerInitialize(accessKeyId)
    \/ Disconnect
    \/ TestConnection
    \/ \E c \in 1..MaxHandlerCalls, answered \in BOOLEAN : TestConnectionResume(c, answered)
    \/ ListAllPolicies
    \/ \E c \in 1..MaxHandlerCalls, answer \in ListAnswers : ListPoliciesResume(c, answer)
    \/ \E c \in 1..MaxHandlerCalls : ListAllPoliciesResume(c)
    \/ \E c \in 1..MaxHandlerCalls, found \in BOOLEAN : ListAttachedResume(c, found)
    \/ GetCompletePolicyInfo
    \/ \E c \in 1..MaxHandlerCalls, answered \in BOOLEAN :
           GetCompletePolicyInfoResume(c, answered)

\* the handler singleton and the calls made on it
SpecHandler == Init /\ [][NextHandler]_vars

-----------------------------------------------------------------------------
(* PolicyVisualizer.calculatePolicyDiff                                    *)

\* a variant that keeps the entries in an array: every entry is pushed
arrayPush(set, x) == Append(set, x)

\* set.add(x) on a Set, kept as its elements in insertion order
setAdd(set, x) == IF x \in Range(set) THEN set ELSE Append(set, x)

\* entries.forEach(a => set.add(a)), from entry i on
RECURSIVE addEach(_, _, _)
addEach(set, entries, i) ==
    IF i > Len(entries) THEN set
    ELSE addEach(setAdd(set, entries[i]), entries, i + 1)

\* if (stmt.Action): the field is there and is not the empty string
isTruthyField(stmt, field) ==
    /\ field \in DOMAIN stmt
    /\ ~(stmt[field].type = "string" /\ stmt[field].val = "")

\* Array.isArray(v) ? v : [v]
asArray(v) == IF isArray(v) THEN v.val ELSE <<v.val>>

\* statements.forEach(stmt => ...) for one of the fields Action and Resource,
\* from statement k on
RECURSIVE collectFrom(_, _, _, _)
collectFrom(statements, field, k, set) ==
    IF k > Len(statements) THEN set
    ELSE collectFrom(statements, field, k + 1,
                     IF isTruthyField(statements[k], field)
                     THEN addEach(set, asArray(statements[k][field]), 1)
                     ELSE set)

\* a variant that reads the first statement only
collectEntriesOfFirst(statements, field) ==
    collectFrom(sliceFirst(statements, 1), field, 1, <<>>)

\* the Set that statements.forEach fills for a field, starting from new Set()
collectEntries(statements, field) == collectFrom(statements, field, 1, <<>>)

\* a variant without the loop over the second Set
differencesOneWay(set1, set2) ==
    [added |-> <<>>,
     removed |-> SelectSeq(set1, LAMBDA x : x \notin Range(set2)),
     unchanged |-> SelectSeq(set1, LAMBDA x : x \in Range(set2)),
     modified |-> <<>>]

\* the two forEach loops over set1 and set2
differences(set1, set2) ==
    [added |-> SelectSeq(set2, LAMBDA x : x \notin Range(set1)),
     removed |-> SelectSeq(set1, LAMBDA x : x \notin Range(set2)),
     unchanged |-> SelectSeq(set1, LAMBDA x : x \in Range(set2)),
     modified |-> <<>>]

\* the diff object as it is created
emptyDiff ==
    [actions |-> [added |-> <<>>, removed |-> <<>>, unchanged |-> <<>>, modified |-> <<>>],
     resources |-> [added |-> <<>>, removed |-> <<>>, unchanged |-> <<>>, modified |-> <<>>],
     statements |-> [added |-> <<>>, removed |-> <<>>, modified |-> <<>>],
     addedCount |-> 0,
     removedCount |-> 0,
     modifiedCount |-> 0]

\* reading stmt.Action of the undefined statement of a document without Statement
TypeError == [threw |-> TRUE, error |-> "TypeError"]

\* !doc
isFalsyDocument(doc) == doc.type \in {"null", "undefined"}

\* calculatePolicyDiff(doc1, doc2)
calculatePolicyDiff(d1, d2) ==
    IF isFalsyDocument(d1) \/ isFalsyDocument(d2) THEN emptyDiff
    ELSE IF "Statement" \notin DOMAIN d1 \/ "Statement" \notin DOMAIN d2 THEN TypeError
    ELSE LET statements1 == statementsOf(d1)
             statements2 == statementsOf(d2)
             actions1    == collectEntries(statements1, "Action")
             actions2    == collectEntries(statements2, "Action")
             resources1  == collectEntries(statements1, "Resource")
             resources2  == collectEntries(statements2, "Resource")
             actions     == differences(actions1, actions2)
             resources   == differences(resources1, resources2)
         IN  [actions |-> actions,
              resources |-> resources,
              statements |-> [added |-> <<>>, removed |-> <<>>, modified |-> <<>>],
              addedCount |-> Len(actions.added) + Len(resources.added),
              removedCount |-> Len(actions.removed) + Len(resources.removed),
              modifiedCount |-> 0]

LogsArn == "arn:aws:s3:::logs"

\* two versions of a policy and a version whose Statement is one object
VersionA ==
    Document(<<Statement("Allow", <<"s3:GetObject", "s3:PutObject">>, Str(BucketArn)),
               Statement("Allow", <<"iam:PassRole">>, Str("*"))>>)

VersionB ==
    Document(<<Statement("Allow", <<"ec2:RunInstances", "s3:GetObject">>,
                         Arr(<<LogsArn, BucketArn>>))>>)

VersionC ==
    [type |-> "object", Version |-> "2012-10-17",
     Statement |-> [type |-> "object", Effect |-> "Allow", Action |-> Str("s3:PutObject")]]

\* the statements of a document in the opposite order
reorderStatements(doc) ==
    Document([k \in 1..Len(doc.Statement.val) |->
                  doc.Statement.val[Len(doc.Statement.val) + 1 - k]])

\* one statement per Action entry, from statement k on
RECURSIVE splitFrom(_, _)
splitFrom(statements, k) ==
    IF k > Len(statements) THEN <<>>
    ELSE [n \in 1..Len(statements[k].Action.val) |->
              [statements[k] EXCEPT !.Action = Arr(<<statements[k].Action.val[n]>>)]]
         \o splitFrom(statements, k + 1)

splitStatements(doc) == Document(splitFrom(doc.Statement.val, 1))

\* the Action or Resource entries of the statements from k on, one after another
RECURSIVE entriesFrom(_, _, _)
entriesFrom(statements, field, k) ==
    IF k > Len(statements) THEN <<>>
    ELSE asArray(statements[k][field]) \o entriesFrom(statements, field, k + 1)

\* all statements merged into one
mergeStatements(doc) ==
    Document(<<[type |-> "object", Effect |-> "Allow",
                Action |-> Arr(entriesFrom(doc.Statement.val, "Action", 1)),
                Resource |-> Arr(entriesFrom(doc.Statement.val, "Resource", 1))]>>)

\* the first Action entry of the first statement once more
repeatEntry(doc) ==
    Document([doc.Statement.val EXCEPT ![1].Action =
                  Arr(Append(@.val, @.val[1]))])

\* every statement with another Effect and with Sid, Condition, NotAction and
\* NotResource fields
restyleStatements(doc) ==
    Document([k \in 1..Len(doc.Statement.val) |->
                  [type |-> "object",
                   Sid |-> "Stmt",
                   Effect |-> "Deny",
                   Action |-> doc.Statement.val[k].Action,
                   Resource |-> doc.Statement.val[k].Resource,
                   NotAction |-> Str("s3:DeleteObject"),
                   NotResource |-> Str(LogsArn),
                   Condition |-> [type |-> "object", Bool |-> "aws:SecureTransport"]]])

\* the Document fields of the versions that are compared
VersionDocuments ==
    {VersionA, VersionB, VersionC,
     reorderStatements(VersionA), splitStatements(VersionA), mergeStatements(VersionA),
     repeatEntry(VersionA), restyleStatements(VersionA),
     Null, [type |-> "object", Version |-> "2012-10-17"]}

\* renderVersionComparison(version1, version2, containerElement): the diff of
\* the two Document fields; the comparison before it is remembered
RenderVersionComparison(version1, version2) ==
    /\ doc1' = version1
    /\ doc2' = version2
    /\ diff' = calculatePolicyDiff(version1, version2)
    /\ previousDiff' = [doc1 |-> doc1, doc2 |-> doc2, diff |-> diff]
    /\ UNCHANGED <<analysisVars, expansionVars, appVars, handlerVars>>

NextDiff ==
    \E version1 \in VersionDocuments, version2 \in VersionDocuments :
        RenderVersionComparison(version1, version2)

\* the comparisons of policy versions
SpecDiff == Init /\ [][NextDiff]_vars

\* VersionA with its strings in another letter case and with whitespace
VersionASpelled ==
    Document(<<Statement("Allow", <<"s3:getobject", "S3: PutObject">>,
                         Str("ARN:AWS:S3:::BUCKET/*")),
               Statement("Allow", <<"IAM:PassRole">>, Str("*"))>>)

\* versions that differ in the spelling of their strings
SpelledDocuments == {VersionA, VersionASpelled, VersionB, VersionC}

NextSpelled ==
    \E version1 \in SpelledDocuments, version2 \in SpelledDocuments :
        RenderVersionComparison(version1, version2)

\* the comparisons of versions that spell their strings differently
SpecSpelled == Init /\ [][NextSpelled]_vars

-----------------------------------------------------------------------------
(* What the properties say about a document, read off the document itself  *)

HasStatementField ==
    policyDocument.type = "object" /\ "Statement" \in DOMAIN policyDocument

DocStatements ==
    IF policyDocument.Statement.type = "array"
    THEN policyDocument.Statement.val
    ELSE <<policyDocument.Statement>>

ActionEntries(st) ==
    IF "Action" \notin DOMAIN st THEN {}
    ELSE IF st.Action.type = "array" THEN Range(st.Action.val) ELSE {st.Action.val}

ResourceEntries(st) ==
    IF "Resource" \notin DOMAIN st THEN {}
    ELSE IF st.Resource.type = "array" THEN Range(st.Resource.val) ELSE {st.Resource.val}

IsAllow(st) == "Effect" \notin DOMAIN st \/ st.Effect = "Allow"
IsDeny(st) == "Effect" \in DOMAIN st /\ st.Effect = "Deny"

AllowEntries == UNION {ActionEntries(st) : st \in {t \in Range(DocStatements) : IsAllow(t)}}
DenyEntries == UNION {ActionEntries(st) : st \in {t \in Range(DocStatements) : IsDeny(t)}}

\* lower case, whitespace removed
Normalised(a) == stripWhitespace(toLowerCase(a))

ServiceOf(p) == splitFirst(p)

Techniques == Range(EscalationCatalog)
Required(T) == Range(T.permissions)
CatalogPermissions == UNION {Required(T) : T \in Techniques}

\* the allowed set: the normalised Allow entries and, for every Allow entry of the
\* form service:*, the catalog permissions of that service
AllowedSet ==
    {Normalised(a) : a \in AllowEntries}
    \cup {p \in CatalogPermissions :
            \E a \in AllowEntries :
                /\ includes(a, "*")
                /\ endsWith(Normalised(a), ":*")
                /\ ServiceOf(Normalised(a)) # ""
                /\ startsWith(p, ServiceOf(Normalised(a)) \o ":")}

DeniedSet == {Normalised(a) : a \in DenyEntries}

\* every required permission of T is granted by the allowed set
Satisfied(allowed, T) ==
    \A p \in Required(T) :
        p \in allowed \/ "*" \in allowed \/ (ServiceOf(p) \o ":*") \in allowed

DetectedNames == {result.detectedMethods[i].method : i \in 1..Len(result.detectedMethods)}

IssuesOfType(type) == {i \in 1..Len(result.issues) : result.issues[i].type = type}

EscalationIssueFor(T) ==
    \E i \in IssuesOfType("PRIVILEGE_ESCALATION") :
        result.issues[i].title = "Privilege Escalation: " \o T.name

Analysed == Returned /\ HasStatementField

-----------------------------------------------------------------------------
(* C1 *)

IsFullAdminStatement(st) ==
    IsAllow(st) /\ "*" \in ActionEntries(st) /\ "*" \in ResourceEntries(st)

\* C1: when a statement with Effect Allow (or no Effect) has an Action entry "*"
\* and a Resource entry "*", the result has riskLevel 10 and a critical FULL_ADMIN
\* issue whose statementIndex is the index of that statement, whatever the other
\* statements are.
C1_FullAdmin ==
    Analysed =>
        \A i \in 1..Len(DocStatements) :
            IsFullAdminStatement(DocStatements[i]) =>
                /\ result.riskLevel = 10
                /\ \E j \in IssuesOfType("FULL_ADMIN") :
                       /\ result.issues[j].severity = "critical"
                       /\ result.issues[j].statementIndex = i - 1

\* a full-admin statement without an Effect field, after a Deny statement
C1_Witness ==
    /\ Analysed
    /\ Len(DocStatements) = 2
    /\ IsDeny(DocStatements[1])
    /\ "Effect" \notin DOMAIN DocStatements[2]
    /\ IsFullAdminStatement(DocStatements[2])

-----------------------------------------------------------------------------
(* C2 *)

SameIgnoringCase(a, p) == toLowerCase(a) = toLowerCase(p)

DeniedByName(denyEntries, T) ==
    \E a \in denyEntries : \E p \in Required(T) : SameIgnoringCase(a, p)

\* C2: a technique whose required permissions are all granted by the Allow
\* statements, and of which a Deny statement lists one required permission by
\* name in any letter case, is not in detectedMethods and gets no
\* PRIVILEGE_ESCALATION issue, wherever the Deny statement stands.
C2_DenialPrecedence ==
    Analysed =>
        LET allowed == AllowedSet
            denyEntries == DenyEntries
        IN  \A T \in Techniques :
                (Satisfied(allowed, T) /\ DeniedByName(denyEntries, T)) =>
                    (T.name \notin DetectedNames /\ ~EscalationIssueFor(T))

\* the Deny statement comes first and writes the permission in another letter case
C2_Witness ==
    /\ Analysed
    /\ Len(DocStatements) = 2
    /\ IsDeny(DocStatements[1]) /\ IsAllow(DocStatements[2])
    /\ LET allowed == AllowedSet
       IN  \E T \in Techniques :
               /\ Satisfied(allowed, T)
               /\ \E a \in ActionEntries(DocStatements[1]) :
                      a \notin Required(T) /\ \E p \in Required(T) : SameIgnoringCase(a, p)
    /\ result.detectedMethods # <<>>

-----------------------------------------------------------------------------
(* C3 *)

Detectable(allowed, denied, T) ==
    Satisfied(allowed, T) /\ Required(T) \cap denied = {}

\* C3: a technique is in detectedMethods exactly when every required permission
\* is in the allowed set, or granted by "*" or by service:* in the allowed set,
\* and no required permission is in the denied set; the optional permissions
\* play no part.
C3_MatcherRule ==
    Analysed =>
        LET allowed == AllowedSet
            denied  == DeniedSet
        IN  DetectedNames = {T.name : T \in {U \in Techniques : Detectable(allowed, denied, U)}}

\* one technique is detected, another is granted but denied, a third is not granted
C3_Witness ==
    /\ Analysed
    /\ LET allowed == AllowedSet
           denied  == DeniedSet
       IN  /\ \E T \in Techniques : Detectable(allowed, denied, T)
           /\ \E T \in Techniques : Satisfied(allowed, T) /\ Required(T) \cap denied # {}
           /\ \E T \in Techniques : ~Satisfied(allowed, T)
    /\ result.detectedMethods # <<>>

-----------------------------------------------------------------------------
(* C4 *)

\* the document has one statement, an Allow statement whose only action is iam:*
\* in some letter case
GrantsOnlyIamStar ==
    /\ HasStatementField
    /\ Len(DocStatements) = 1
    /\ IsAllow(DocStatements[1])
    /\ ActionEntries(DocStatements[1]) # {}
    /\ \A a \in ActionEntries(DocStatements[1]) : toLowerCase(a) = "iam:*"

IamOnly(T) == \A p \in Required(T) : startsWith(p, "iam:")

\* C4: for a document that grants only iam:*, detectedMethods holds exactly the
\* techniques whose required permissions all start with iam: (AttachUserPolicy
\* and PutUserPolicy among them) and none that needs another service
\* (PassRoleToLambda, AttachRolePolicy).
C4_IamStarExpansion ==
    (Returned /\ GrantsOnlyIamStar) =>
        /\ DetectedNames = {T.name : T \in {U \in Techniques : IamOnly(U)}}
        /\ {"AttachUserPolicy", "PutUserPolicy"} \subseteq DetectedNames
        /\ {"PassRoleToLambda", "AttachRolePolicy"} \cap DetectedNames = {}

\* iam:* written in upper case
C4_Witness ==
    /\ Returned /\ GrantsOnlyIamStar
    /\ "IAM:*" \in ActionEntries(DocStatements[1])
    /\ Len(result.detectedMethods) > 1

-----------------------------------------------------------------------------
(* C5 *)

NoTechniqueSatisfied ==
    LET allowed == AllowedSet IN \A T \in Techniques : ~Satisfied(allowed, T)

\* C5 as stated: without a wildcard action and without a technique whose
\* required permissions are all satisfied, riskLevel is 0 and issues is empty,
\* whatever the Resource fields are.
C5_Original ==
    (/\ Analysed
     /\ \A st \in Range(DocStatements) : \A a \in ActionEntries(st) : ~includes(a, "*")
     /\ NoTechniqueSatisfied)
        => (result.riskLevel = 0 /\ result.issues = <<>>)

\* C5: without an Action entry "*", without a Resource entry "*" and without a
\* technique whose required permissions are all satisfied, riskLevel is 0 and
\* issues is empty.
C5_NoFindings ==
    (/\ Analysed
     /\ \A st \in Range(DocStatements) :
            "*" \notin ActionEntries(st) /\ "*" \notin ResourceEntries(st)
     /\ NoTechniqueSatisfied)
        => (result.riskLevel = 0 /\ result.issues = <<>>)

\* an Allow statement with an action and a resource, neither of them "*"
C5_Witness ==
    /\ Analysed
    /\ \A st \in Range(DocStatements) :
           "*" \notin ActionEntries(st) /\ "*" \notin ResourceEntries(st)
    /\ NoTechniqueSatisfied
    /\ \E st \in Range(DocStatements) :
           IsAllow(st) /\ ActionEntries(st) # {} /\ ResourceEntries(st) # {}
    /\ result.riskLevel = 0

-----------------------------------------------------------------------------
(* C6 *)

SetMax(S) == CHOOSE x \in S : \A y \in S : y <= x

CatalogRiskLevel(name) == (CHOOSE T \in Techniques : T.name = name).riskLevel

\* C6: riskLevel is 10 with a FULL_ADMIN issue, and otherwise the largest of 0,
\* 8 with a WILDCARD_ACTION issue, 6 with a WILDCARD_RESOURCE issue, and the
\* catalog riskLevel of every detected technique.
C6_RiskLevel ==
    Analysed =>
        result.riskLevel =
            IF IssuesOfType("FULL_ADMIN") # {} THEN 10
            ELSE SetMax({0}
                        \cup (IF IssuesOfType("WILDCARD_ACTION") # {} THEN {8} ELSE {})
                        \cup (IF IssuesOfType("WILDCARD_RESOURCE") # {} THEN {6} ELSE {})
                        \cup {CatalogRiskLevel(n) : n \in DetectedNames})

\* without FULL_ADMIN, the riskLevel is that of a detected technique and the
\* technique detected last has a lower one
C6_Witness ==
    /\ Analysed
    /\ IssuesOfType("FULL_ADMIN") = {}
    /\ \E i \in 1..Len(result.detectedMethods) :
           result.detectedMethods[i].riskLevel = result.riskLevel
    /\ result.detectedMethods[Len(result.detectedMethods)].riskLevel < result.riskLevel

-----------------------------------------------------------------------------
(* C7 *)

SomeWildcardAction == \E st \in Range(DocStatements) : "*" \in ActionEntries(st)
SomeWildcardResource == \E st \in Range(DocStatements) : "*" \in ResourceEntries(st)

\* C7: issues holds at most one WILDCARD_ACTION and at most one
\* WILDCARD_RESOURCE issue, each with statementIndex -1; WILDCARD_ACTION (high)
\* is there exactly when some statement of any Effect has an Action entry "*" and
\* there is no FULL_ADMIN issue, WILDCARD_RESOURCE (medium) exactly when some
\* statement has a Resource entry "*" and there is no FULL_ADMIN issue.
C7_StaticWildcardRules ==
    Analysed =>
        /\ Cardinality(IssuesOfType("WILDCARD_ACTION")) <= 1
        /\ Cardinality(IssuesOfType("WILDCARD_RESOURCE")) <= 1
        /\ \A i \in IssuesOfType("WILDCARD_ACTION") :
               result.issues[i].statementIndex = -1 /\ result.issues[i].severity = "high"
        /\ \A i \in IssuesOfType("WILDCARD_RESOURCE") :
               result.issues[i].statementIndex = -1 /\ result.issues[i].severity = "medium"
        /\ IssuesOfType("WILDCARD_ACTION") # {}
               <=> (SomeWildcardAction /\ IssuesOfType("FULL_ADMIN") = {})
        /\ IssuesOfType("WILDCARD_RESOURCE") # {}
               <=> (SomeWildcardResource /\ IssuesOfType("FULL_ADMIN") = {})

\* two Deny statements, both with Action "*" and Resource "*"
C7_Witness ==
    /\ Analysed
    /\ Len(DocStatements) = 2
    /\ \A st \in Range(DocStatements) :
           IsDeny(st) /\ "*" \in ActionEntries(st) /\ "*" \in ResourceEntries(st)
    /\ Cardinality(IssuesOfType("WILDCARD_ACTION")) = 1
    /\ Cardinality(IssuesOfType("WILDCARD_RESOURCE")) = 1

-----------------------------------------------------------------------------
(* C8 *)

\* C8: for a null or undefined document and for a document without a Statement
\* field the call returns issues [], riskLevel 0, detectedMethods [] and the
\* summary "No policy statements found".
C8_NoStatements ==
    (Returned /\ ~HasStatementField) =>
        /\ result.issues = <<>>
        /\ result.riskLevel = 0
        /\ result.detectedMethods = <<>>
        /\ result.summary = "No policy statements found"

\* the document {Version: "2012-10-17"}
C8_Witness ==
    /\ Returned
    /\ policyDocument = [type |-> "object", Version |-> "2012-10-17"]

-----------------------------------------------------------------------------
(* C9 *)

\* one statement, Effect Allow, Resource "*"
OneAllowStatementOnStar ==
    /\ HasStatementField
    /\ Len(DocStatements) = 1
    /\ "Effect" \in DOMAIN DocStatements[1] /\ DocStatements[1].Effect = "Allow"
    /\ ResourceEntries(DocStatements[1]) = {"*"}

DetectedSequence ==
    [i \in 1..Len(result.detectedMethods) |-> result.detectedMethods[i].method]

\* C9: one Allow statement on Resource "*" whose actions are the required
\* permissions of a technique T in any letter case detects T and no technique
\* that needs a permission outside those actions; Action "iam:AttachUserPolicy"
\* gives [AttachUserPolicy], riskLevel 10 and a summary starting with CRITICAL;
\* the three PassRoleToLambda actions give [PassRoleToLambda] and riskLevel 10.
C9_EndToEnd ==
    (Returned /\ OneAllowStatementOnStar) =>
        /\ \A T \in Techniques :
               {toLowerCase(a) : a \in ActionEntries(DocStatements[1])} = Required(T) =>
                   /\ T.name \in DetectedNames
                   /\ \A U \in Techniques :
                          U.name \in DetectedNames => Required(U) \subseteq Required(T)
        /\ policyDocument = AttachUserPolicyDocument =>
               /\ DetectedSequence = <<"AttachUserPolicy">>
               /\ result.riskLevel = 10
               /\ startsWith(result.summary, "CRITICAL")
        /\ policyDocument = PassRoleToLambdaDocument =>
               /\ DetectedSequence = <<"PassRoleToLambda">>
               /\ result.riskLevel = 10

\* the three PassRoleToLambda actions written in upper case
C9_Witness ==
    /\ Returned /\ OneAllowStatementOnStar
    /\ ActionEntries(DocStatements[1]) =
           {"IAM:PASSROLE", "LAMBDA:CREATEFUNCTION", "LAMBDA:INVOKEFUNCTION"}
    /\ DetectedSequence = <<"PassRoleToLambda">>

-----------------------------------------------------------------------------
(* C10 *)

-----------------------------------------------------------------------------
(* C11 *)

\* C11: the catalog is never modified, and no array inside a detectedMethods
\* entry of a returned value is an array of the catalog, so that a change made
\* to a returned value reaches neither the catalog nor a later analysis.
C11_FreshAndFramed ==
    /\ ESCALATION_METHODS = EscalationCatalog
    /\ \A i \in DOMAIN detectedRefs :
           /\ detectedRefs[i].permissions.object # "ESCALATION_METHODS"
           /\ detectedRefs[i].optional.object # "ESCALATION_METHODS"

-----------------------------------------------------------------------------
(* C12 *)

\* a natural number in decimal digits
RECURSIVE Decimal(_)
Decimal(n) ==
    IF n < 10 THEN SubSeq("0123456789", n + 1, n + 1)
    ELSE Decimal(n \div 10) \o SubSeq("0123456789", (n % 10) + 1, (n % 10) + 1)

-----------------------------------------------------------------------------
(* C13 *)

\* the initialize() calls that have completed successfully
CompletedCalls == {c \in DOMAIN initializeCalls : initializeCalls[c].pc = "completed"}

\* C13: analyzePolicy throws the "not initialized" error exactly when no
\* initialize call has completed successfully before it; an initialize call
\* that fails rethrows the error of the load and leaves isInitialized as it
\* was (false when no call had succeeded); isInitialized is true exactly when
\* some call has succeeded and never goes back to false.
C13_UninitializedEngine ==
    [][/\ (expansion' # expansion \/ policyDocument' # policyDocument) =>
              (("threw" \in DOMAIN expansion' /\ includes(expansion'.error, "not initialized"))
                   <=> CompletedCalls = {})
       /\ \A c \in DOMAIN initializeCalls :
              (initializeCalls[c].pc # "threw" /\ initializeCalls'[c].pc = "threw") =>
                  /\ initializeCalls[c].pc = "rejected"
                  /\ initializeCalls'[c].error = initializeCalls[c].error
                  /\ isInitialized' = isInitialized
                  /\ CompletedCalls = {} => ~isInitialized'
       /\ isInitialized => isInitialized'
       /\ isInitialized' <=> CompletedCalls' # {}]_vars

\* a first call failed, a later call succeeded, and analyzePolicy then returned
C13_Witness ==
    /\ Len(initializeCalls) = 2
    /\ initializeCalls[1].pc = "threw"
    /\ initializeCalls[2].pc = "completed"
    /\ isInitialized
    /\ expansion # NoResult
    /\ "threw" \notin DOMAIN expansion
    /\ expansion.isValid

-----------------------------------------------------------------------------
(* C14 *)

\* the number of actions of the services before service m of the catalog
RECURSIVE ActionsBefore(_, _)
ActionsBefore(serviceMap, m) ==
    IF m = 1 THEN 0
    ELSE ActionsBefore(serviceMap, m - 1) + Len(serviceMap[m - 1].Actions)

\* the catalog flattened: one entry prefix:action per action of each service
IsFlattened(actions, data) ==
    /\ Len(actions) = ActionsBefore(data.serviceMap, Len(data.serviceMap) + 1)
    /\ \A m \in 1..Len(data.serviceMap) : \A k \in 1..Len(data.serviceMap[m].Actions) :
           actions[ActionsBefore(data.serviceMap, m) + k]
               = data.serviceMap[m].StringPrefix \o ":" \o data.serviceMap[m].Actions[k]

\* C14: an initialize call made once isInitialized is true returns and leaves
\* awsData, allActions and isInitialized as they are; and whenever the engine
\* is initialized and no call stands between its load and its index build,
\* allActions is the flattened catalog, one entry per catalog action.
C14_InitializeIdempotent ==
    /\ []((isInitialized /\ \A c \in DOMAIN initializeCalls :
                                initializeCalls[c].pc # "resolved")
              => IsFlattened(allActions, awsData))
    /\ [][(isInitialized /\ Len(initializeCalls') > Len(initializeCalls)) =>
              /\ initializeCalls'[Len(initializeCalls')].pc = "returned"
              /\ UNCHANGED <<PolicyEditorConfig, awsData, allActions, isInitialized>>]_vars

\* two calls that overlapped have both built the index
C14_Witness ==
    /\ Len(initializeCalls) = 2
    /\ initializeCalls[1].pc = "completed"
    /\ initializeCalls[2].pc = "completed"
    /\ isInitialized
    /\ Len(allActions) > 0

-----------------------------------------------------------------------------
(* C15 *)

\* the Action entries and then the NotAction entries of a statement, in order
PatternEntries(st) ==
    (IF "Action" \notin DOMAIN st THEN <<>>
     ELSE IF st.Action.type = "array" THEN st.Action.val ELSE <<st.Action.val>>)
    \o
    (IF "NotAction" \notin DOMAIN st THEN <<>>
     ELSE IF st.NotAction.type = "array" THEN st.NotAction.val ELSE <<st.NotAction.val>>)

\* the catalog's entries prefix:action, service after service
RECURSIVE CatalogEntriesFrom(_, _)
CatalogEntriesFrom(data, m) ==
    IF m > Len(data.serviceMap) THEN <<>>
    ELSE [k \in 1..Len(data.serviceMap[m].Actions) |->
              data.serviceMap[m].StringPrefix \o ":" \o data.serviceMap[m].Actions[k]]
         \o CatalogEntriesFrom(data, m + 1)

CatalogEntries == CatalogEntriesFrom(awsData, 1)

\* p from position i matches s from position j, each * standing for zero or
\* more characters and every other character for itself
RECURSIVE GlobFrom(_, _, _, _)
GlobFrom(p, i, s, j) ==
    IF i > Len(p) THEN j > Len(s)
    ELSE IF SubSeq(p, i, i) = "*"
    THEN GlobFrom(p, i + 1, s, j) \/ (j <= Len(s) /\ GlobFrom(p, i, s, j + 1))
    ELSE j <= Len(s) /\ SubSeq(p, i, i) = SubSeq(s, j, j) /\ GlobFrom(p, i + 1, s, j + 1)

\* the whole of s matches the pattern p, letter case ignored
GlobMatches(p, s) == GlobFrom(toLowerCase(p), 1, toLowerCase(s), 1)

\* the catalog entries a pattern matches, in catalog order
MatchedEntries(p) == SelectSeq(CatalogEntries, LAMBDA a : GlobMatches(p, a))

\* analyzePolicy was run on a document with a Statement field
AnalysedStatements == expansion # NoResult /\ HasStatementField

\* C15: every pattern of an analysed document is expanded: a pattern without *
\* to itself alone (count 1, hasWildcard false), whether or not the catalog
\* knows it; a pattern with * that matches some catalog entry to the entries it
\* matches, in catalog order, where each * stands for any run of characters,
\* the match is anchored at both ends and letter case is ignored, and a
\* pattern with * never expands to a catalog entry it does not match. With the
\* catalog of S3 (GetObject, PutObject, ListBucket) s3:Get* gives
\* ["s3:GetObject"] and s3:* gives three actions.
C15_PatternExpansion ==
    AnalysedStatements =>
        /\ "threw" \notin DOMAIN expansion
        /\ \A k \in 1..Len(DocStatements) :
               \A n \in 1..Len(PatternEntries(DocStatements[k])) :
                   LET p == PatternEntries(DocStatements[k])[n]
                       e == expansion.statements[k].expansions[n]
                   IN  /\ ~includes(p, "*") =>
                              /\ e.expandedActions = <<p>>
                              /\ e.expandedCount = 1
                              /\ ~e.hasWildcard
                       /\ (includes(p, "*") /\ MatchedEntries(p) # <<>>) =>
                              /\ e.expandedActions = MatchedEntries(p)
                              /\ e.expandedCount = Len(MatchedEntries(p))
                       /\ (includes(p, "*") /\ MatchedEntries(p) = <<>>) =>
                              \A a \in Range(e.expandedActions) :
                                  a \notin Range(CatalogEntries)
                       /\ (awsData = S3Config /\ p = "s3:Get*") =>
                              e.expandedActions = <<"s3:GetObject">>
                       /\ (awsData = S3Config /\ p = "s3:*") => e.expandedCount = 3

-----------------------------------------------------------------------------
(* C16 *)

\* C16: a pattern with * that matches no catalog entry is expanded to itself
\* alone: expandedActions is [pattern], expandedCount is 1 and hasWildcard is
\* true.
C16_ZeroMatchFallback ==
    AnalysedStatements =>
        /\ "threw" \notin DOMAIN expansion
        /\ \A k \in 1..Len(DocStatements) :
               \A n \in 1..Len(PatternEntries(DocStatements[k])) :
                   LET p == PatternEntries(DocStatements[k])[n]
                       e == expansion.statements[k].expansions[n]
                   IN  (includes(p, "*") /\ MatchedEntries(p) = <<>>) =>
                           /\ e.expandedActions = <<p>>
                           /\ e.expandedCount = 1
                           /\ e.hasWildcard

-----------------------------------------------------------------------------
(* C17 *)

\* the number of Action and NotAction entries of statements k..
RECURSIVE CountEntries(_)
CountEntries(k) ==
    IF k > Len(DocStatements) THEN 0
    ELSE Len(PatternEntries(DocStatements[k])) + CountEntries(k + 1)

\* the sum of expandedCount over the expansions n.. of statement k and of the
\* statements after it
RECURSIVE CountExpanded(_, _)
CountExpanded(k, n) ==
    IF k > Len(expansion.statements) THEN 0
    ELSE IF n > Len(expansion.statements[k].expansions) THEN CountExpanded(k + 1, 1)
    ELSE expansion.statements[k].expansions[n].expandedCount + CountExpanded(k, n + 1)

\* the impact level of a ratio given as the fraction num / den
LevelOf(num, den) ==
    IF num >= 100 * den THEN "critical"
    ELSE IF num >= 50 * den THEN "high"
    ELSE IF num >= 10 * den THEN "medium"
    ELSE "low"

\* analyzePolicy returned a result for a document with a Statement field
ReturnedValid ==
    /\ AnalysedStatements
    /\ "threw" \notin DOMAIN expansion
    /\ expansion.isValid

\* C17: in a returned result totalPatterns is the number of Action and
\* NotAction entries of the document, totalExpandedActions the sum of
\* expandedCount over all expansions, and expansionRatio their quotient, 0 when
\* there is no pattern; the level is critical from 100, high from 50, medium
\* from 10 and low below, and the engine and the renderer give the same level.
C17_ExpansionRatio ==
    ReturnedValid =>
        LET summary == expansion.summary
            ratio   == summary.expansionRatio
        IN  /\ summary.totalPatterns = CountEntries(1)
            /\ summary.totalExpandedActions = CountExpanded(1, 1)
            /\ summary.totalPatterns = 0 => ratio.num = 0
            /\ ratio.den > 0
            /\ summary.totalPatterns > 0 =>
                   ratio.num * summary.totalPatterns
                       = summary.totalExpandedActions * ratio.den
            /\ expansionView.kind = "summary"
            /\ expansionView.impactLevel
                   = LevelOf(summary.totalExpandedActions,
                             IF summary.totalPatterns = 0 THEN 1 ELSE summary.totalPatterns)
            /\ getImpactLevel(ratio) = expansionView.impactLevel

\* the ratio is exactly 100: one pattern that matches a catalog of 100 actions
C17_Witness ==
    /\ ReturnedValid
    /\ expansion.summary.totalPatterns = 1
    /\ expansion.summary.totalExpandedActions = 100
    /\ expansionView.impactLevel = "critical"

-----------------------------------------------------------------------------
(* C18 *)

HasStatement(X) == X.type = "object" /\ "Statement" \in DOMAIN X

StatementsOfVersion(X) ==
    IF X.Statement.type = "array" THEN X.Statement.val ELSE <<X.Statement>>

\* the set of all strings of a field over all statements of a document
StringsOf(X, field) ==
    UNION {IF field \notin DOMAIN st THEN {}
           ELSE IF st[field].type = "array" THEN Range(st[field].val)
           ELSE {st[field].val} : st \in Range(StatementsOfVersion(X))}

\* two documents with a Statement field have been compared
Compared == diff # NoResult /\ HasStatement(doc1) /\ HasStatement(doc2)

NoDuplicates(list) == Cardinality(Range(list)) = Len(list)

\* added, removed and unchanged of one dimension are the set differences and
\* the intersection, as lists without duplicates
IsSetAlgebra(part, A, B) ==
    /\ Range(part.added) = B \ A
    /\ Range(part.removed) = A \ B
    /\ Range(part.unchanged) = A \cap B
    /\ NoDuplicates(part.added)
    /\ NoDuplicates(part.removed)
    /\ NoDuplicates(part.unchanged)
    /\ Range(part.added) \cap Range(part.removed) = {}
    /\ Range(part.added) \cap Range(part.unchanged) = {}
    /\ Range(part.removed) \cap Range(part.unchanged) = {}

\* C18: for two documents with a Statement field the diff lists are the set
\* differences and the intersection of the documents' Action strings and of
\* their Resource strings, without duplicates and pairwise disjoint;
\* addedCount and removedCount are the sums over both dimensions and
\* modifiedCount is 0.
C18_DiffSetAlgebra ==
    Compared =>
        /\ "threw" \notin DOMAIN diff
        /\ IsSetAlgebra(diff.actions, StringsOf(doc1, "Action"), StringsOf(doc2, "Action"))
        /\ IsSetAlgebra(diff.resources, StringsOf(doc1, "Resource"),
                        StringsOf(doc2, "Resource"))
        /\ diff.addedCount = Len(diff.actions.added) + Len(diff.resources.added)
        /\ diff.removedCount = Len(diff.actions.removed) + Len(diff.resources.removed)
        /\ diff.modifiedCount = 0

\* a document that repeats an entry, compared with one that shares some
\* actions and resources with it
C18_Witness ==
    /\ Compared
    /\ doc1 = repeatEntry(VersionA)
    /\ diff.actions.added # <<>>
    /\ diff.actions.removed # <<>>
    /\ diff.actions.unchanged # <<>>
    /\ diff.resources.added # <<>>
    /\ diff.resources.removed # <<>>
    /\ diff.resources.unchanged # <<>>

-----------------------------------------------------------------------------
(* C19 *)

\* the comparison before this one was of the same two documents the other way
Swapped ==
    /\ Compared
    /\ previousDiff # NoResult
    /\ previousDiff.doc1 = doc2
    /\ previousDiff.doc2 = doc1

\* C19: diff(A,B) and diff(B,A) have added and removed exchanged, for actions,
\* for resources and for the two counts; diff(A,A) has empty added and removed
\* lists, both counts 0 and the actions of A as its unchanged actions.
C19_DiffRoundTrip ==
    /\ Swapped =>
           /\ diff.actions.added = previousDiff.diff.actions.removed
           /\ diff.actions.removed = previousDiff.diff.actions.added
           /\ diff.resources.added = previousDiff.diff.resources.removed
           /\ diff.resources.removed = previousDiff.diff.resources.added
           /\ diff.addedCount = previousDiff.diff.removedCount
           /\ diff.removedCount = previousDiff.diff.addedCount
    /\ (Compared /\ doc1 = doc2) =>
           /\ diff.actions.added = <<>>
           /\ diff.actions.removed = <<>>
           /\ diff.resources.added = <<>>
           /\ diff.resources.removed = <<>>
           /\ diff.addedCount = 0
           /\ diff.removedCount = 0
           /\ Range(diff.actions.unchanged) = StringsOf(doc1, "Action")
           /\ NoDuplicates(diff.actions.unchanged)

\* two different documents compared one way and then the other
C19_Witness ==
    /\ Swapped
    /\ doc1 # doc2
    /\ diff.actions.added # <<>>
    /\ diff.actions.removed # <<>>
    /\ diff.resources.added # <<>>
    /\ diff.addedCount # diff.removedCount

-----------------------------------------------------------------------------
(* C20 *)

\* every statement of the document has an Action array and a Resource
IsPlainVersion(X) ==
    /\ HasStatement(X)
    /\ X.Statement.type = "array"
    /\ X.Statement.val # <<>>
    /\ \A st \in Range(X.Statement.val) :
           /\ {"Action", "Resource"} \subseteq DOMAIN st
           /\ st.Action.type = "array"
           /\ st.Action.val # <<>>

\* Y is X with its statements reordered, split or merged, with an entry
\* repeated, or with other Effect, Sid, Condition, NotAction and NotResource
IsVariant(X, Y) ==
    /\ IsPlainVersion(X)
    /\ Y \in {reorderStatements(X), splitStatements(X), mergeStatements(X),
              repeatEntry(X), restyleStatements(X)}

\* X and Y have the same Action strings and the same Resource strings
SameUnions(X, Y) ==
    /\ HasStatement(X)
    /\ HasStatement(Y)
    /\ StringsOf(X, "Action") = StringsOf(Y, "Action")
    /\ StringsOf(X, "Resource") = StringsOf(Y, "Resource")

SameSets(part1, part2) ==
    /\ Range(part1.added) = Range(part2.added)
    /\ Range(part1.removed) = Range(part2.removed)
    /\ Range(part1.unchanged) = Range(part2.unchanged)

\* C20: the diff depends only on the union of the Action strings and the union
\* of the Resource strings of each document: a document compared with a
\* variant of it (statements reordered, split or merged, an entry repeated,
\* other Effect, Sid, Condition, NotAction or NotResource) has addedCount and
\* removedCount 0, and the variant compared with any document B gives the same
\* added, removed and unchanged sets as the document itself compared with B.
C20_DiffIgnoresStatementBoundaries ==
    /\ (Compared /\ (IsVariant(doc1, doc2) \/ SameUnions(doc1, doc2))) =>
           /\ diff.addedCount = 0
           /\ diff.removedCount = 0
    /\ (/\ Compared
        /\ previousDiff # NoResult
        /\ previousDiff.doc2 = doc2
        /\ IsVariant(previousDiff.doc1, doc1) \/ SameUnions(previousDiff.doc1, doc1)) =>
           /\ SameSets(diff.actions, previousDiff.diff.actions)
           /\ SameSets(diff.resources, previousDiff.diff.resources)

\* a document and then the same document with its statements split, both
\* compared with another version
C20_Witness ==
    /\ Compared
    /\ previousDiff # NoResult
    /\ previousDiff.doc1 = VersionA
    /\ doc1 = splitStatements(VersionA)
    /\ doc1 # VersionA
    /\ previousDiff.doc2 = doc2
    /\ diff.actions.added # <<>>
    /\ diff.actions.removed # <<>>

-----------------------------------------------------------------------------
(* C21 *)

\* C21: strings are compared with letter case ignored and whitespace
\* stripped: a string of the first document that the second document holds in
\* another spelling is listed as unchanged and not as removed, and its
\* spelling in the second document is not listed as added; this holds for
\* actions and for resources.
C21_DiffIgnoresSpelling ==
    Compared =>
        /\ "threw" \notin DOMAIN diff
        /\ \A a \in StringsOf(doc1, "Action") : \A b \in StringsOf(doc2, "Action") :
               Normalised(a) = Normalised(b) =>
                   /\ a \in Range(diff.actions.unchanged)
                   /\ a \notin Range(diff.actions.removed)
                   /\ b \notin Range(diff.actions.added)
        /\ \A a \in StringsOf(doc1, "Resource") : \A b \in StringsOf(doc2, "Resource") :
               Normalised(a) = Normalised(b) =>
                   /\ a \in Range(diff.resources.unchanged)
                   /\ a \notin Range(diff.resources.removed)
                   /\ b \notin Range(diff.resources.added)

-----------------------------------------------------------------------------
(* C22 *)

\* a comparison has been made
DiffCalled == diff # NoResult

AllListsEmpty(d) ==
    /\ \A part \in {d.actions, d.resources} :
           part.added = <<>> /\ part.removed = <<>> /\ part.unchanged = <<>>
                             /\ part.modified = <<>>
    /\ d.statements = [added |-> <<>>, removed |-> <<>>, modified |-> <<>>]

\* the strings of a field, none when the document has no Statement field
StringsOrNone(X, field) == IF HasStatement(X) THEN StringsOf(X, field) ELSE {}

\* C22: calculatePolicyDiff never throws on empty or missing fields: with a
\* null or undefined document it returns the diff with all lists empty and all
\* counts 0; otherwise it returns a diff to which a missing Statement, Action or
\* Resource field contributes nothing.
C22_DiffTotality ==
    DiffCalled =>
        /\ "threw" \notin DOMAIN diff
        /\ (isFalsyDocument(doc1) \/ isFalsyDocument(doc2)) =>
               /\ AllListsEmpty(diff)
               /\ diff.addedCount = 0
               /\ diff.removedCount = 0
               /\ diff.modifiedCount = 0
        /\ ~(isFalsyDocument(doc1) \/ isFalsyDocument(doc2)) =>
               /\ IsSetAlgebra(diff.actions, StringsOrNone(doc1, "Action"),
                               StringsOrNone(doc2, "Action"))
               /\ IsSetAlgebra(diff.resources, StringsOrNone(doc1, "Resource"),
                               StringsOrNone(doc2, "Resource"))

-----------------------------------------------------------------------------
(* C23 *)

\* the initialize() call of App.init has rejected
CatalogFailed == Len(initializeCalls) >= 1 /\ initializeCalls[1].pc = "threw"

\* the fields of an AnalysisResult; stats is there when statements were analysed
IsAnalysisResult(res, doc) ==
    /\ {"issues", "riskLevel", "detectedMethods", "summary"} \subseteq DOMAIN res
    /\ HasStatement(doc) => "stats" \in DOMAIN res

\* C23: when the action catalog fails to load the application still completes
\* its start-up with the event listeners installed; every security analysis
\* made after that returns an AnalysisResult; the expansion analysis throws the
\* not-initialized error, which is caught and shown as an error message, and
\* the step that shows it leaves the security analysis as it is.
C23_GracefulDegradation ==
    /\ [](CatalogFailed =>
              /\ ~isInitialized
              /\ appInit # "awaiting" => eventListeners
              /\ result # NoResult => IsAnalysisResult(result, policyDocument)
              /\ expansion # NoResult =>
                     /\ "threw" \in DOMAIN expansion
                     /\ includes(expansion.error, "not initialized")
                     /\ expansionView.kind = "error"
                     /\ includes(expansionView.text, expansion.error))
    /\ [][(CatalogFailed /\ expansion' # expansion) =>
              UNCHANGED <<policyDocument, result, eventListeners>>]_vars
    /\ (CatalogFailed ~> eventListeners)

\* after the failed load a policy was analysed and its expansion view opened
C23_Witness ==
    /\ CatalogFailed
    /\ eventListeners
    /\ result # NoResult
    /\ Len(result.detectedMethods) > 0
    /\ expansion # NoResult
    /\ expansionView.kind = "error"

-----------------------------------------------------------------------------
(* C24 *)

\* the initialize and disconnect calls made on the handler so far
ConnectionCalls ==
    {c \in DOMAIN handlerCalls : handlerCalls[c].op \in {"initialize", "disconnect"}}

\* disconnect() has run and initialize() has not been called since
Disconnected ==
    /\ ConnectionCalls # {}
    /\ handlerCalls[CHOOSE c \in ConnectionCalls : \A d \in ConnectionCalls : d <= c].op
           = "disconnect"

\* C24: after disconnect() and until the next initialize(), credentials,
\* iamClient and stsClient are null and isInitialized() is false, whatever the
\* calls that were in flight at the disconnect do when they go on.
C24_DisconnectClearsCredentials ==
    Disconnected =>
        /\ credentials = Null
        /\ iamClient = Null
        /\ stsClient = Null
        /\ ~handlerIsInitialized

\* a testConnection that was in flight at the disconnect has stored its
\* identity after it
C24_Witness ==
    /\ Disconnected
    /\ currentIdentity # Null
    /\ \E c \in DOMAIN handlerCalls :
           /\ handlerCalls[c].op = "testConnection"
           /\ handlerCalls[c].pc = "returned"
           /\ handlerCalls[c].success

-----------------------------------------------------------------------------
(* C25 *)

IssuesOfSeverity(severity) ==
    {i \in 1..Len(result.issues) : result.issues[i].severity = severity}

\* C25: in every result for a document with a Statement field riskLevel is one
\* of 0, 6, 7, 8, 9, 10 and is 0 exactly when issues is empty; every issue has
\* severity critical, high or medium, so that stats.totalIssues is the sum of
\* the three counts; the PRIVILEGE_ESCALATION issues are as many as the
\* detectedMethods and as stats.escalationMethods; the summary never starts
\* with LOW RISK.
C25_RiskIssueConsistency ==
    Analysed =>
        /\ result.riskLevel \in {0, 6, 7, 8, 9, 10}
        /\ result.riskLevel = 0 <=> result.issues = <<>>
        /\ \A i \in 1..Len(result.issues) :
               result.issues[i].severity \in {"critical", "high", "medium"}
        /\ result.stats.totalIssues = Len(result.issues)
        /\ result.stats.criticalIssues = Cardinality(IssuesOfSeverity("critical"))
        /\ result.stats.highIssues = Cardinality(IssuesOfSeverity("high"))
        /\ result.stats.mediumIssues = Cardinality(IssuesOfSeverity("medium"))
        /\ result.stats.totalIssues
               = result.stats.criticalIssues + result.stats.highIssues
                     + result.stats.mediumIssues
        /\ Cardinality(IssuesOfType("PRIVILEGE_ESCALATION")) = Len(result.detectedMethods)
        /\ result.stats.escalationMethods = Len(result.detectedMethods)
        /\ ~startsWith(result.summary, "LOW RISK")

\* the lowest levels above 0: a technique of level 7 with a wildcard resource
C25_Witness ==
    /\ Analysed
    /\ result.riskLevel = 7
    /\ IssuesOfSeverity("medium") # {}
    /\ IssuesOfSeverity("high") # {}
    /\ IssuesOfSeverity("critical") = {}

-----------------------------------------------------------------------------
(* C26 *)

\* the analysed document is an array of two or more statements
HasAppendedStatement ==
    /\ Analysed
    /\ policyDocument.Statement.type = "array"
    /\ Len(policyDocument.Statement.val) >= 2

\* the last statement, and the result for the document without it
AppendedStatement == policyDocument.Statement.val[Len(policyDocument.Statement.val)]

ResultBeforeAppend ==
    analyzePolicyForShadowAdmin(
        [policyDocument EXCEPT !.Statement.val = SubSeq(@, 1, Len(@) - 1)],
        ESCALATION_METHODS)

NamesOf(detectedMethods) == {detectedMethods[i].method : i \in 1..Len(detectedMethods)}

\* C26: a document with an Allow statement appended has every technique the
\* document had and a riskLevel at least as high; a document with a Deny
\* statement appended has no technique the document did not have.
C26_DetectionMonotone ==
    HasAppendedStatement =>
        LET before == ResultBeforeAppend
        IN  /\ IsAllow(AppendedStatement) =>
                   /\ NamesOf(before.detectedMethods) \subseteq DetectedNames
                   /\ before.riskLevel <= result.riskLevel
            /\ IsDeny(AppendedStatement) =>
                   DetectedNames \subseteq NamesOf(before.detectedMethods)

\* an appended Allow statement has added techniques to the ones detected before
C26_Witness ==
    /\ HasAppendedStatement
    /\ IsAllow(AppendedStatement)
    /\ NamesOf(ResultBeforeAppend.detectedMethods) # {}
    /\ NamesOf(ResultBeforeAppend.detectedMethods) # DetectedNames
    /\ ResultBeforeAppend.riskLevel < result.riskLevel

-----------------------------------------------------------------------------
(* C27 *)

\* an action with * in it that is not "*" and does not end with ":*", as the
\* document writes it
IsPartialAsWritten(a) == includes(a, "*") /\ a # "*" /\ ~endsWith(a, ":*")

\* the same of the action in lower case with its whitespace removed
IsPartialNormalised(a) ==
    includes(a, "*") /\ Normalised(a) # "*" /\ ~endsWith(Normalised(a), ":*")

\* the sets the statement loop has collected for the analysed document
ScannedLocals ==
    scanStatements(InitialLocals, ESCALATION_METHODS, statementsOf(policyDocument), 1)

\* the allowed set holds the Allow actions' own strings and nothing else, and
\* grants no permission of the catalog
OnlyOwnStrings ==
    /\ ScannedLocals.allowedPermissions = {Normalised(a) : a \in AllowEntries}
    /\ \A p \in CatalogPermissions :
           ~permissionGranted(ScannedLocals.allowedPermissions, p)

NoTechniqueReported ==
    /\ result.detectedMethods = <<>>
    /\ IssuesOfType("PRIVILEGE_ESCALATION") = {}

\* C27 as stated: a document whose Allow actions all contain * without being
\* "*" or ending with ":*", as written, has only those strings in its allowed
\* set, satisfies no required permission, and gets no technique and no
\* PRIVILEGE_ESCALATION or WILDCARD_ACTION issue.
C27_Original ==
    (Analysed /\ AllowEntries # {} /\ \A a \in AllowEntries : IsPartialAsWritten(a)) =>
        /\ OnlyOwnStrings
        /\ NoTechniqueReported
        /\ IssuesOfType("WILDCARD_ACTION") = {}

\* C27: a document whose Allow actions all contain * and, in lower case with
\* the whitespace removed, are neither "*" nor end with ":*", has only those
\* normalised strings in its allowed set, satisfies no required permission and
\* gets no technique and no PRIVILEGE_ESCALATION issue; it gets no
\* WILDCARD_ACTION issue when no statement of any effect has the Action "*".
C27_PartialWildcards ==
    (Analysed /\ AllowEntries # {} /\ \A a \in AllowEntries : IsPartialNormalised(a)) =>
        /\ OnlyOwnStrings
        /\ NoTechniqueReported
        /\ (\A i \in 1..Len(DocStatements) : "*" \notin ActionEntries(DocStatements[i]))
               => IssuesOfType("WILDCARD_ACTION") = {}

\* iam:Attach* has been analysed on Resource "*"
C27_Witness ==
    /\ Analysed
    /\ AllowEntries = {"iam:Attach*"}
    /\ ScannedLocals.allowedPermissions = {"iam:attach*"}
    /\ result.detectedMethods = <<>>
    /\ IssuesOfType("WILDCARD_RESOURCE") # {}

-----------------------------------------------------------------------------
(* C28 *)

IgnoredFields == {"NotAction", "NotResource", "Condition", "Sid"}

HasIgnoredField(st) == DOMAIN st \cap IgnoredFields # {}

WithoutIgnoredFields(st) == [f \in DOMAIN st \ IgnoredFields |-> st[f]]

\* the analysed document with the four fields taken out of every statement
DocumentWithoutIgnoredFields ==
    IF policyDocument.Statement.type = "array"
    THEN [policyDocument EXCEPT !.Statement.val =
             [i \in 1..Len(@) |-> WithoutIgnoredFields(@[i])]]
    ELSE [policyDocument EXCEPT !.Statement = WithoutIgnoredFields(@)]

IsNotActionOnly(st) == "NotAction" \in DOMAIN st /\ "Action" \notin DOMAIN st

\* the analysed statements that have an Action field
StatementsWithAction ==
    SelectSeq(DocStatements, LAMBDA st : ~IsNotActionOnly(st))

\* C28: the result of a document with NotAction, NotResource, Condition or Sid
\* fields is the result of the same document without them, and the statements
\* that have NotAction and no Action add nothing to the allowed and denied
\* sets; a document of such statements alone has no technique detected.
C28_IgnoredFields ==
    Analysed =>
        /\ result = analyzePolicyForShadowAdmin(DocumentWithoutIgnoredFields,
                                                ESCALATION_METHODS)
        /\ LET kept == scanStatements(InitialLocals, ESCALATION_METHODS,
                                      StatementsWithAction, 1)
           IN  /\ ScannedLocals.allowedPermissions = kept.allowedPermissions
               /\ ScannedLocals.deniedPermissions = kept.deniedPermissions
        /\ (\A i \in 1..Len(DocStatements) : IsNotActionOnly(DocStatements[i])) =>
               /\ ScannedLocals.allowedPermissions = {}
               /\ ScannedLocals.deniedPermissions = {}
               /\ result.detectedMethods = <<>>

\* a technique is detected beside a Deny statement that has a Sid and a
\* NotAction and no Action
C28_Witness ==
    /\ Analysed
    /\ Len(DocStatements) = 2
    /\ IsDeny(DocStatements[2]) /\ IsNotActionOnly(DocStatements[2])
    /\ HasIgnoredField(DocStatements[2])
    /\ DocStatements[2].NotAction = Str("iam:PassRole")
    /\ "AttachUserPolicy" \in DetectedNames
    /\ ScannedLocals.deniedPermissions = {}

-----------------------------------------------------------------------------
(* C29 *)

\* the expansions of a returned result, as pairs of statement and position
ExpansionPositions ==
    UNION {{<<k, n>> : n \in 1..Len(expansion.statements[k].expansions)} :
               k \in 1..Len(expansion.statements)}

\* C29: in a returned valid result every expansion has expandedCount equal to
\* the length of expandedActions and at least 1; wildcardPatterns plus
\* exactPatterns is totalPatterns and totalExpandedActions is at least
\* totalPatterns, so that expansionRatio is 0 without patterns and at least 1
\* with them; the document's servicesAffected holds the services of the
\* statements' servicesAffected and no other.
C29_ExpansionInvariants ==
    ReturnedValid =>
        LET summary == expansion.summary
        IN  /\ \A pos \in ExpansionPositions :
                   LET e == expansion.statements[pos[1]].expansions[pos[2]]
                   IN  e.expandedCount = Len(e.expandedActions) /\ e.expandedCount >= 1
            /\ \A k \in 1..Len(expansion.statements) :
                   LET st == expansion.statements[k]
                   IN  /\ st.wildcardPatterns + st.exactPatterns = Len(st.patterns)
                       /\ st.totalExpandedActions >= Len(st.patterns)
            /\ summary.wildcardPatterns + summary.exactPatterns = summary.totalPatterns
            /\ summary.totalExpandedActions >= summary.totalPatterns
            /\ IF summary.totalPatterns = 0
               THEN summary.expansionRatio = Zero
               ELSE atLeast(summary.expansionRatio, 1)
            /\ Range(summary.servicesAffected) =
                   UNION {Range(expansion.statements[k].servicesAffected) :
                              k \in 1..Len(expansion.statements)}

\* two statements that touch different services, with more actions than patterns
C29_Witness ==
    /\ ReturnedValid
    /\ Len(expansion.statements) = 2
    /\ expansion.statements[1].servicesAffected # expansion.statements[2].servicesAffected
    /\ expansion.statements[2].servicesAffected # <<>>
    /\ Len(expansion.summary.servicesAffected) >= 2
    /\ expansion.summary.totalExpandedActions > expansion.summary.totalPatterns
    /\ expansion.summary.wildcardPatterns >= 1
    /\ expansion.summary.exactPatterns >= 1

-----------------------------------------------------------------------------
(* C30 *)

\* the Action entries and the NotAction entries of a statement of the document
ActionPatternsOf(st) ==
    IF "Action" \notin DOMAIN st THEN <<>>
    ELSE IF st.Action.type = "array" THEN st.Action.val ELSE <<st.Action.val>>

NotActionPatternsOf(st) ==
    IF "NotAction" \notin DOMAIN st THEN <<>>
    ELSE IF st.NotAction.type = "array" THEN st.NotAction.val ELSE <<st.NotAction.val>>

\* the services of the catalog behind a list of actions
ServicesOfActions(actions) ==
    {getServiceFromAction(actions[n], awsData) : n \in 1..Len(actions)}

\* entry n of the NotAction field of statement k is recorded and expanded as
\* the Action pattern of the same text would be
RecordedLikeAction(k, n) ==
    LET st       == DocStatements[k]
        p        == NotActionPatternsOf(st)[n]
        pos      == Len(ActionPatternsOf(st)) + n
        analysis == expansion.statements[k]
        e        == analysis.expansions[pos]
        asAction == expandPattern(p, allActions)
    IN  /\ analysis.patterns[pos] = "NOT:" \o p
        /\ e.originalPattern = "NOT:" \o p
        /\ e.isNotAction
        /\ e.expandedActions = asAction.expandedActions
        /\ e.expandedCount = asAction.expandedCount
        /\ ServicesOfActions(e.expandedActions) \subseteq Range(analysis.servicesAffected)
        /\ ServicesOfActions(e.expandedActions) \subseteq
               Range(expansion.summary.servicesAffected)

\* C30: in a returned valid result every NotAction entry p is the pattern
\* "NOT:" followed by p with isNotAction true, and has the expandedActions and
\* the expandedCount that p has as an Action pattern; its count is part of the
\* statement's and the document's totalExpandedActions, and its services are
\* in both servicesAffected.
C30_NotActionPatterns ==
    ReturnedValid =>
        /\ \A k \in 1..Len(DocStatements) :
               /\ \A n \in 1..Len(NotActionPatternsOf(DocStatements[k])) :
                      RecordedLikeAction(k, n)
               /\ expansion.statements[k].totalExpandedActions =
                      sumExpandedCount(expansion.statements[k].expansions, 1)
        /\ expansion.summary.totalExpandedActions = CountExpanded(1, 1)

====
